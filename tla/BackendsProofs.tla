--------------------------- MODULE BackendsProofs ---------------------------
(***************************************************************************)
(* The theorems about the backends, for the machine in which one of them   *)
(* runs: its steps are those of the backend or leave it as it is.  The ASR *)
(* worker is instantiated a second time, with the proofs about it by       *)
(* itself; a lemma says that the two instances have the same beginnings    *)
(* and the same steps.  The proofs about five others, about the transports *)
(* and about the installers are in here, the rest is in DeliveryProofs.    *)
(***************************************************************************)
EXTENDS MCBackends, Integers, Sequences, TLAPS

AsrProofs == INSTANCE EdgeAsrWorkerProofs

\* The two instances of EdgeAsrWorker.
LEMMA AsrWorkerSame ==
  /\ AsrWorker!Init => AsrProofs!Init
  /\ AsrWorker!Next => AsrProofs!Next
  /\ AsrProofs!AsrWorkerIsSafe => AsrWorker!AsrWorkerIsSafe
  <1>1. AsrWorker!Init => AsrProofs!Init
    BY DEF AsrWorker!Init, AsrWorker!Gen, AsrWorker!Idle, AsrWorker!End, AsrWorker!Doing,
           AsrProofs!Init, AsrProofs!Gen, AsrProofs!Idle, AsrProofs!End, AsrProofs!Doing
  <1>2. AsrWorker!Next => AsrProofs!Next
    BY DEF AsrWorker!Next, AsrWorker!UseWorker, AsrWorker!Launch, AsrWorker!Handshake,
           AsrWorker!HandshakeFails, AsrWorker!RetireFailed, AsrWorker!SetReady,
           AsrWorker!Answered, AsrWorker!RequestFails, AsrWorker!ClearIfCurrent,
           AsrWorker!BeginRestart, AsrWorker!TakeRestartLock, AsrWorker!GiveUpLock,
           AsrWorker!NothingToRestart, AsrWorker!CloseWio, AsrWorker!RetireWorker,
           AsrWorker!ConfirmExit, AsrWorker!KeepSurvivor, AsrWorker!ResetHealth, AsrWorker!Gen,
           AsrWorker!Exit, AsrWorker!EmitTelemetry, AsrWorker!ReadStderr, AsrWorker!End,
           AsrWorker!CloseEnds, AsrWorker!At, AsrWorker!Running, AsrWorker!Captured,
           AsrWorker!pairVars, AsrWorker!pipeVars, AsrWorker!Doing, AsrWorker!Shutdown,
           AsrWorker!Goto, AsrWorker!Return, AsrWorker!RestartReturns, AsrWorker!StartClose,
           AsrWorker!CollectClose, AsrWorker!Idle, AsrWorker!StartDrain, AsrProofs!Next,
           AsrProofs!UseWorker, AsrProofs!Launch, AsrProofs!Handshake, AsrProofs!HandshakeFails,
           AsrProofs!RetireFailed, AsrProofs!SetReady, AsrProofs!Answered,
           AsrProofs!RequestFails, AsrProofs!ClearIfCurrent, AsrProofs!BeginRestart,
           AsrProofs!TakeRestartLock, AsrProofs!GiveUpLock, AsrProofs!NothingToRestart,
           AsrProofs!CloseWio, AsrProofs!RetireWorker, AsrProofs!ConfirmExit,
           AsrProofs!KeepSurvivor, AsrProofs!ResetHealth, AsrProofs!Gen, AsrProofs!Exit,
           AsrProofs!EmitTelemetry, AsrProofs!ReadStderr, AsrProofs!End, AsrProofs!CloseEnds,
           AsrProofs!At, AsrProofs!Running, AsrProofs!Captured, AsrProofs!pairVars,
           AsrProofs!pipeVars, AsrProofs!Doing, AsrProofs!Shutdown, AsrProofs!Goto,
           AsrProofs!Return, AsrProofs!RestartReturns, AsrProofs!StartClose,
           AsrProofs!CollectClose, AsrProofs!Idle, AsrProofs!StartDrain
  <1>3. AsrProofs!AsrWorkerIsSafe => AsrWorker!AsrWorkerIsSafe
    BY DEF AsrWorker!AsrWorkerIsSafe, AsrWorker!WorkerIsOwned, AsrWorker!OldLeavesNewAlone,
           AsrWorker!NoOrphan, AsrWorker!OneOwnerPerPipe, AsrWorker!FailureIsOwn,
           AsrWorker!HealthIsCurrent, AsrWorker!Running, AsrWorker!Gen, AsrWorker!End,
           AsrWorker!At, AsrWorker!Cardinality, AsrProofs!AsrWorkerIsSafe,
           AsrProofs!WorkerIsOwned, AsrProofs!OldLeavesNewAlone, AsrProofs!NoOrphan,
           AsrProofs!OneOwnerPerPipe, AsrProofs!FailureIsOwn, AsrProofs!HealthIsCurrent,
           AsrProofs!Running, AsrProofs!Gen, AsrProofs!End, AsrProofs!At, AsrProofs!Cardinality
  <1> QED
    BY <1>1, <1>2, <1>3

\* Every running ASR worker process and each of its pipes has its one owner, and what an
\* older process does late changes nothing of a newer one, for any number of threads and
\* of processes.
THEOREM AsrWorkerSafe ==
  ASSUME MaxGen \in Nat, NoCaller \notin Caller
  PROVE  Spec => []AsrWorkerIsSafe
  <1>1. Init => AsrProofs!Init
    BY AsrWorkerSame DEF Init
  <1>2. [Next]_vars => [AsrProofs!Next]_(AsrProofs!asrWorkerVars)
    <2>1. [Next]_vars => AsrWorker!Next \/ UNCHANGED asrWorkerState
      BY DEF Next, vars
    <2>2. UNCHANGED asrWorkerState => UNCHANGED AsrProofs!asrWorkerVars
      BY DEF AsrProofs!asrWorkerVars, asrWorkerState
    <2> QED
      BY <2>1, <2>2, AsrWorkerSame
  <1>3. AsrProofs!AsrWorkerIsSafe => AsrWorkerIsSafe
    BY AsrWorkerSame DEF AsrWorkerIsSafe
  <1>4. AsrProofs!Constants
    BY DEF AsrProofs!Constants
  <1>5. AsrProofs!Spec => []AsrProofs!AsrWorkerIsSafe
    BY <1>4, AsrProofs!AsrWorkerCorrect
  <1> QED
    BY <1>1, <1>2, <1>3, <1>5, PTL DEF Spec, AsrProofs!Spec

(***************************************************************************)
(* The stream of the TRT Edge-LLM ASR backend: a cancel meets the session  *)
(* it was meant for and freezes its text, and a closed stream is settled.  *)
(***************************************************************************)
StreamRequest == {"begin", "chunk", "last", "end"}
StreamLine    == [line : StreamRequest \cup {"cancel"}, s : Nat]
StreamThread  == [op   : {"none", "begin", "accept", "rotate", "finalize", "close"},
                  pc   : {"idle", "send", "wait", "got", "rotate", "close"},
                  line : StreamRequest \cup {"none"},
                  s    : Nat,
                  resp : {"none", "ack", "partial", "rotation", "final", "ended", "cancelled", "error"}]
StreamOutside == [pc : {"idle", "barrier", "receipt", "receipted", "exit"}, s : Nat]

\* What the variables are.
StreamTypeOK ==
    /\ sid \in Nat \ {0} /\ begun \in SUBSET Nat /\ held \in SUBSET Nat
    /\ partial \in {0, sid} /\ finalText \in {0, sid} /\ committed \in Seq(Nat)
    /\ closed \in BOOLEAN /\ inControl \in BOOLEAN
    /\ consumer \in StreamThread
    /\ consumer.pc \in {"send", "wait"} => consumer.line # "none"
    /\ control \in [Caller -> StreamOutside]
    /\ wire \in Seq(StreamLine)

\* Only the current session is ever armed, and it is armed with its intent.
StreamArmed == intent \in {0, sid} /\ armed = (IF intent = 0 THEN {} ELSE {sid})

\* The consumer has to begin the current session, or waits for that.
StreamBeginning == consumer.line = "begin" /\ consumer.pc \in {"send", "wait"}

\* Until its begin line is written nothing is written of a session.
StreamUnwritten ==
    /\ StreamBeginning /\ consumer.pc = "send" =>
          sid \notin begun /\ \A j \in DOMAIN wire : wire[j].s # sid
    /\ \A g \in begun \cup held \cup {consumer.s} : g <= sid
    /\ \A j \in DOMAIN wire : wire[j].s <= sid

\* A session that has not begun has no slot, no receipt and no end yet.
StreamFresh ==
    StreamBeginning => /\ consumer.s = sid /\ sid \notin held
                       /\ confirm = 0 /\ ~closed
                       /\ \A c \in Caller : control[c].pc # "receipted"

\* There is one begin line at most, the first of its session, and the consumer
\* waits for its answer.
StreamOneBegin ==
    \A i \in DOMAIN wire : wire[i].line = "begin" =>
        /\ StreamBeginning /\ consumer.pc = "wait" /\ wire[i].s = sid
        /\ \A j \in DOMAIN wire : /\ wire[j].line = "begin" => j = i
                                  /\ j < i => wire[j].s # sid

\* What an answer says of the slot is still so when it is dealt with.
StreamAnswerHolds ==
    /\ AsrStream!Got("cancelled") \/ AsrStream!Got("ended") => consumer.s \notin held
    /\ AsrStream!Got("final") => consumer.s \notin held \/ consumer.s \in keptIds

\* A control is on its way for an intent, and its receipt still holds.
StreamReceiptHolds ==
    \A c \in Caller : /\ control[c].pc # "idle" => intent # 0
                      /\ control[c].pc = "receipted" => control[c].s \notin held

\* The inductive invariant.
StreamIInv ==
    /\ StreamTypeOK /\ StreamArmed /\ StreamUnwritten /\ StreamFresh /\ StreamOneBegin
    /\ StreamAnswerHolds /\ StreamReceiptHolds
    /\ AsrStream!CancelIsCurrent /\ AsrStream!ClosedIsSettled

USE DEF StreamRequest

\* The invariant holds at the start.
LEMMA StreamInitIInv == ASSUME AsrStream!Init PROVE StreamIInv
  <1>1. <<>> \in Seq(StreamLine) /\ <<>> \in Seq(Nat)
    OBVIOUS
  <1>2. AsrStream!Sending("begin", "begin", 1) \in StreamThread /\ AsrStream!Out \in StreamOutside
    BY DEF AsrStream!Sending, StreamThread, AsrStream!Out, StreamOutside
  <1>3. /\ control \in [Caller -> StreamOutside]
        /\ consumer \in StreamThread /\ consumer.line = "begin"
    BY <1>2 DEF AsrStream!Init, AsrStream!Sending
  <1>4. StreamTypeOK
    <2>1. sid = 1 /\ begun = {} /\ held = {} /\ partial = 0 /\ finalText = 0
          /\ closed = FALSE /\ inControl = FALSE
      BY DEF AsrStream!Init
    <2>2. committed \in Seq(Nat) /\ wire \in Seq(StreamLine)
      BY <1>1 DEF AsrStream!Init
    <2>3. sid \in Nat \ {0} /\ begun \in SUBSET Nat /\ held \in SUBSET Nat
      BY <2>1
    <2>4. partial \in {0, sid} /\ finalText \in {0, sid}
      BY <2>1
    <2>5. closed \in BOOLEAN /\ inControl \in BOOLEAN
      BY <2>1
    <2> QED
      BY <1>3, <2>2, <2>3, <2>4, <2>5 DEF StreamTypeOK
  <1> QED
    BY <1>4 DEF AsrStream!Init, AsrStream!Sending, AsrStream!Out, StreamIInv, StreamArmed,
       StreamBeginning, StreamUnwritten, StreamFresh, StreamOneBegin, StreamAnswerHolds,
       AsrStream!Got, StreamReceiptHolds, AsrStream!CancelIsCurrent,
       AsrStream!ClosedIsSettled


\* The consumer starts a call or ends one, and writes nothing.
LEMMA StreamConsumerIInv ==
  ASSUME StreamIInv, AsrStream!AcceptWaveform \/ AsrStream!Finalize \/ AsrStream!Close
         \/ AsrStream!Raise \/ AsrStream!BeginAcked \/ AsrStream!Ended
  PROVE  StreamIInv'
  <1> USE DEF AsrStream!AcceptWaveform, AsrStream!Finalize, AsrStream!Close,
     AsrStream!Raise, AsrStream!BeginAcked, AsrStream!Ended, AsrStream!Ready, AsrStream!Got,
     AsrStream!Done, AsrStream!Free, AsrStream!Sending, AsrStream!textVars,
     AsrStream!cancelVars, AsrStream!nativeVars
  <1>0. /\ UNCHANGED <<sid, AsrStream!textVars, begun, AsrStream!cancelVars, AsrStream!nativeVars>>
        /\ ~StreamBeginning /\ ~StreamBeginning'
    BY DEF StreamIInv, StreamTypeOK, StreamBeginning
  <1>1. StreamTypeOK'
    <2>1. consumer' \in StreamThread /\ (consumer'.pc = "send" => consumer'.line # "none")
      <3>1. CASE AsrStream!AcceptWaveform \/ AsrStream!Finalize
        BY <3>1 DEF StreamIInv, StreamTypeOK, StreamThread
      <3>2. CASE AsrStream!Close
        BY <3>2 DEF StreamIInv, StreamTypeOK, StreamThread
      <3>3. CASE AsrStream!Raise \/ AsrStream!BeginAcked \/ AsrStream!Ended
        BY <3>3 DEF StreamIInv, StreamTypeOK, StreamThread
      <3> QED
        BY <3>1, <3>2, <3>3
    <2>2. consumer'.pc # "wait"
      BY DEF StreamIInv, StreamTypeOK, StreamThread
    <2>3. closed' \in BOOLEAN
      <3>1. CASE AsrStream!Ended
        BY <3>1 DEF StreamIInv, StreamTypeOK
      <3>2. CASE ~AsrStream!Ended
        BY <3>2 DEF StreamIInv, StreamTypeOK
      <3> QED
        BY <3>1, <3>2
    <2> QED
      BY <1>0, <2>1, <2>2, <2>3 DEF StreamIInv, StreamTypeOK
  <1>2. StreamArmed' /\ StreamReceiptHolds' /\ AsrStream!CancelIsCurrent'
    BY <1>0 DEF StreamIInv, StreamArmed, StreamReceiptHolds, AsrStream!CancelIsCurrent
  <1>3. StreamUnwritten' /\ StreamFresh' /\ StreamOneBegin'
    BY <1>0, <1>1 DEF StreamIInv, StreamTypeOK, StreamUnwritten, StreamFresh, StreamOneBegin
  <1>4. StreamAnswerHolds'
    BY DEF StreamIInv, StreamAnswerHolds
  <1>5. AsrStream!ClosedIsSettled'
    BY DEF StreamIInv, StreamTypeOK, AsrStream!CancelIsCurrent, StreamAnswerHolds,
       AsrStream!ClosedIsSettled
  <1> QED
    BY <1>1, <1>2, <1>3, <1>4, <1>5 DEF StreamIInv

\* A line is written.
LEMMA StreamSendIInv == ASSUME StreamIInv, AsrStream!Send PROVE StreamIInv'
  <1> USE DEF AsrStream!Send, AsrStream!textVars, AsrStream!cancelVars
  <1> DEFINE new == [line |-> consumer.line, s |-> consumer.s]
  <1>0. /\ new \in StreamLine /\ wire' = Append(wire, new)
        /\ consumer' = [consumer EXCEPT !.pc = "wait"] /\ consumer' \in StreamThread
    BY DEF StreamIInv, StreamTypeOK, StreamThread, StreamLine
  <1>1. StreamTypeOK'
    BY <1>0 DEF StreamIInv, StreamTypeOK, StreamThread
  <1>2. /\ StreamArmed' /\ StreamReceiptHolds'
        /\ AsrStream!CancelIsCurrent' /\ AsrStream!ClosedIsSettled'
    BY DEF StreamIInv, StreamArmed, StreamReceiptHolds, AsrStream!CancelIsCurrent,
       AsrStream!ClosedIsSettled
  <1>3. /\ (StreamBeginning' <=> consumer.line = "begin")
        /\ (StreamBeginning <=> consumer.line = "begin")
    BY <1>0 DEF StreamIInv, StreamTypeOK, StreamThread, StreamBeginning
  <1>4. \A i \in DOMAIN wire : wire[i].line # "begin"
    BY DEF StreamIInv, StreamOneBegin
  <1>5. /\ DOMAIN wire' = DOMAIN wire \cup {Len(wire) + 1} /\ Len(wire) \in Nat
        /\ wire'[Len(wire) + 1] = new
        /\ \A i \in DOMAIN wire : wire'[i] = wire[i] /\ i < Len(wire) + 1
    BY <1>0 DEF StreamIInv, StreamTypeOK
  <1>6. StreamUnwritten'
    BY <1>0, <1>3, <1>5 DEF StreamIInv, StreamTypeOK, StreamUnwritten, StreamFresh, StreamThread
  <1>7. StreamFresh'
    BY <1>0, <1>3 DEF StreamIInv, StreamTypeOK, StreamFresh
  <1>8. StreamOneBegin'
    BY <1>0, <1>3, <1>4, <1>5 DEF StreamIInv, StreamTypeOK, StreamFresh, StreamUnwritten,
       StreamOneBegin, StreamThread
  <1>9. StreamAnswerHolds'
    BY <1>0 DEF StreamIInv, StreamTypeOK, StreamThread, StreamAnswerHolds, AsrStream!Got
  <1> QED
    BY <1>1, <1>2, <1>6, <1>7, <1>8, <1>9 DEF StreamIInv

\* An answer of the worker is dealt with.
LEMMA StreamChunkAnsweredIInv == ASSUME StreamIInv, AsrStream!ChunkAnswered PROVE StreamIInv'
  <1> USE DEF AsrStream!ChunkAnswered, AsrStream!Got, AsrStream!Done, AsrStream!Free,
     AsrStream!Sending, AsrStream!Writable, AsrStream!cancelVars, AsrStream!nativeVars
  <1>0. /\ UNCHANGED <<sid, committed, begun, AsrStream!cancelVars, AsrStream!nativeVars>>
        /\ ~StreamBeginning
    BY DEF StreamBeginning
  <1>a. ~StreamBeginning'
    <2>1. \/ consumer' = AsrStream!Free \/ consumer' = AsrStream!Sending("accept", "chunk", sid)
          \/ consumer' = [consumer EXCEPT !.pc = "rotate"]
          \/ consumer' = [AsrStream!Free EXCEPT !.pc = "close"]
      OBVIOUS
    <2>2. \/ consumer'.line \in {"none", "chunk"}
          \/ consumer'.pc = "rotate"
      BY <2>1 DEF StreamIInv, StreamTypeOK, StreamThread
    <2> QED
      BY <2>2 DEF StreamBeginning
  <1>1. consumer' \in StreamThread /\ (consumer'.pc = "send" => consumer'.line # "none")
        /\ consumer'.pc \in {"idle", "send", "rotate", "close"}
        /\ consumer'.s \in {0, sid, consumer.s}
    BY DEF StreamIInv, StreamTypeOK, StreamThread
  <1>2. partial' \in {0, sid} /\ finalText' \in {0, sid} /\ closed' \in BOOLEAN
    BY DEF StreamIInv, StreamTypeOK
  <1>3. StreamTypeOK'
    BY <1>0, <1>1, <1>2 DEF StreamIInv, StreamTypeOK
  <1>4. StreamArmed' /\ StreamReceiptHolds' /\ AsrStream!CancelIsCurrent'
    BY <1>0 DEF StreamIInv, StreamArmed, StreamReceiptHolds, AsrStream!CancelIsCurrent
  <1>5. StreamUnwritten' /\ StreamFresh' /\ StreamOneBegin'
    BY <1>0, <1>a, <1>1 DEF StreamIInv, StreamTypeOK, StreamUnwritten, StreamFresh,
       StreamOneBegin
  <1>6. StreamAnswerHolds'
    BY <1>1 DEF StreamAnswerHolds
  <1>7. AsrStream!ClosedIsSettled'
    BY <1>0 DEF StreamIInv, StreamAnswerHolds, AsrStream!ClosedIsSettled
  <1> QED
    BY <1>3, <1>4, <1>5, <1>6, <1>7 DEF StreamIInv

\* The answer that the session was cancelled is recorded.
LEMMA StreamCancelledIInv == ASSUME StreamIInv, AsrStream!Cancelled PROVE StreamIInv'
  <1> USE DEF AsrStream!Cancelled, AsrStream!RecordReceipt, AsrStream!Got, AsrStream!Done,
     AsrStream!Free, AsrStream!textVars, AsrStream!nativeVars
  <1>0. /\ ~StreamBeginning /\ ~StreamBeginning'
        /\ consumer'.pc \in {"idle", "close"} /\ consumer'.s = 0
        /\ consumer' \in StreamThread
    BY DEF StreamIInv, StreamTypeOK, StreamThread, StreamBeginning
  <1>1. StreamTypeOK'
    BY <1>0 DEF StreamIInv, StreamTypeOK
  <1>2. /\ intent' = intent
        /\ confirm' \in {confirm, intent}
        /\ confirm' # confirm => confirm' \notin held
    BY DEF StreamIInv, StreamArmed, StreamAnswerHolds
  <1>3. StreamArmed' /\ StreamReceiptHolds' /\ AsrStream!CancelIsCurrent'
    BY <1>2 DEF StreamIInv, StreamArmed, StreamReceiptHolds, AsrStream!CancelIsCurrent
  <1>4. StreamUnwritten' /\ StreamFresh' /\ StreamOneBegin' /\ StreamAnswerHolds'
    BY <1>0 DEF StreamIInv, StreamTypeOK, StreamUnwritten, StreamFresh, StreamOneBegin,
       StreamAnswerHolds
  <1>5. AsrStream!ClosedIsSettled'
    BY DEF StreamIInv, AsrStream!ClosedIsSettled
  <1> QED
    BY <1>1, <1>3, <1>4, <1>5 DEF StreamIInv

\* A segment is committed and a session begun, unless a cancel is armed.
LEMMA StreamRotateIInv == ASSUME StreamIInv, AsrStream!Rotate PROVE StreamIInv'
  <1> USE DEF AsrStream!Rotate, AsrStream!Free, AsrStream!Sending, AsrStream!Writable,
     AsrStream!textVars, AsrStream!cancelVars, AsrStream!nativeVars
  <1>1. CASE ~AsrStream!Writable(consumer.s)
    <2>1. /\ UNCHANGED <<sid, AsrStream!textVars, closed, begun, AsrStream!cancelVars,
                         AsrStream!nativeVars>>
          /\ consumer' = AsrStream!Free /\ ~StreamBeginning /\ ~StreamBeginning'
          /\ AsrStream!Free \in StreamThread
      BY <1>1 DEF StreamBeginning, StreamThread
    <2> QED
      BY <2>1 DEF StreamIInv, StreamTypeOK, StreamArmed, StreamUnwritten, StreamFresh,
         StreamOneBegin, StreamAnswerHolds, StreamReceiptHolds, AsrStream!CancelIsCurrent,
         AsrStream!ClosedIsSettled, AsrStream!Got
  <1>2. CASE AsrStream!Writable(consumer.s)
    <2>1. /\ consumer.s = sid /\ sid' = sid + 1 /\ partial' = 0 /\ finalText' = 0
          /\ closed' = FALSE /\ consumer' = AsrStream!Sending("begin", "begin", sid + 1)
          /\ UNCHANGED <<begun, AsrStream!cancelVars, AsrStream!nativeVars>>
      BY <1>2
    <2>2. /\ intent = 0 /\ armed = {} /\ confirm = 0
          /\ \A c \in Caller : control[c].pc = "idle"
      BY <1>2, <2>1 DEF StreamIInv, StreamTypeOK, StreamArmed, StreamReceiptHolds,
         AsrStream!CancelIsCurrent
    <2>3. committed' = committed \/ committed' = Append(committed, sid)
      BY <1>2, <2>1 DEF StreamIInv, StreamTypeOK
    <2>4. committed' \in Seq(Nat) /\ AsrStream!ClosedIsSettled'
      <3>1. CASE committed' = committed
        BY <2>1, <3>1 DEF StreamIInv, StreamTypeOK, AsrStream!ClosedIsSettled
      <3>2. CASE committed' = Append(committed, sid)
        <4>1. /\ committed' \in Seq(Nat) /\ Len(committed) \in Nat
              /\ DOMAIN committed' = 1 .. Len(committed) + 1
              /\ DOMAIN committed = 1 .. Len(committed)
              /\ committed'[Len(committed) + 1] = sid
              /\ \A i \in DOMAIN committed : committed'[i] = committed[i] /\ committed[i] \in Nat
          BY <3>2 DEF StreamIInv, StreamTypeOK
        <4>2. \A i \in DOMAIN committed' : committed'[i] \in Nat /\ committed'[i] < sid'
          <5>1. \A i \in DOMAIN committed : committed[i] < sid /\ committed[i] < sid + 1
            BY <4>1 DEF StreamIInv, StreamTypeOK, AsrStream!ClosedIsSettled
          <5>2. \A i \in DOMAIN committed' : i \in DOMAIN committed \/ i = Len(committed) + 1
            BY <4>1
          <5>3. sid \in Nat /\ sid < sid + 1
            BY DEF StreamIInv, StreamTypeOK
          <5> QED
            BY <2>1, <4>1, <5>1, <5>2, <5>3
        <4>3. \A i, j \in DOMAIN committed' : i < j => committed'[i] < committed'[j]
          <5> SUFFICES ASSUME NEW i \in DOMAIN committed', NEW j \in DOMAIN committed', i < j
                       PROVE  committed'[i] < committed'[j]
            OBVIOUS
          <5>1. i \in DOMAIN committed
            BY <4>1
          <5>2. CASE j \in DOMAIN committed
            BY <4>1, <5>1, <5>2 DEF StreamIInv, AsrStream!ClosedIsSettled
          <5>3. CASE j = Len(committed) + 1
            BY <4>1, <5>1, <5>3 DEF StreamIInv, AsrStream!ClosedIsSettled
          <5> QED
            BY <4>1, <5>2, <5>3
        <4> QED
          BY <2>1, <4>1, <4>2, <4>3 DEF AsrStream!ClosedIsSettled
      <3> QED
        BY <2>3, <3>1, <3>2
    <2>5. StreamTypeOK'
      <3>1. consumer' \in StreamThread /\ consumer'.line # "none"
        BY <2>1 DEF StreamIInv, StreamTypeOK, StreamThread
      <3>2. sid' \in Nat \ {0} /\ partial' \in {0, sid'} /\ finalText' \in {0, sid'}
        BY <2>1 DEF StreamIInv, StreamTypeOK
      <3>3. closed' \in BOOLEAN
        BY <2>1
      <3>4. UNCHANGED <<begun, held, inControl, control, wire>>
        BY <2>1
      <3> QED
        BY <2>4, <3>1, <3>2, <3>3, <3>4 DEF StreamIInv, StreamTypeOK
    <2>6. StreamArmed' /\ StreamReceiptHolds' /\ AsrStream!CancelIsCurrent'
      BY <2>1, <2>2 DEF StreamIInv, StreamArmed, StreamReceiptHolds, AsrStream!CancelIsCurrent
    <2>7. \A i \in DOMAIN wire : wire[i].line # "begin" /\ wire[i].s \in Nat /\ wire[i].s <= sid
      <3> SUFFICES ASSUME NEW i \in DOMAIN wire
                   PROVE  wire[i].line # "begin" /\ wire[i].s \in Nat /\ wire[i].s <= sid
        OBVIOUS
      <3>1. wire[i].line # "begin"
        BY DEF StreamIInv, StreamOneBegin
      <3>2. wire[i] \in StreamLine /\ wire[i].s <= sid
        BY DEF StreamIInv, StreamTypeOK, StreamUnwritten
      <3> QED
        BY <3>1, <3>2 DEF StreamLine
    <2>8. StreamUnwritten' /\ StreamFresh' /\ StreamOneBegin'
      BY <2>1, <2>2, <2>7 DEF StreamIInv, StreamTypeOK, StreamUnwritten, StreamFresh,
         StreamOneBegin
    <2>9. StreamAnswerHolds'
      BY <2>1 DEF StreamAnswerHolds, AsrStream!Got
    <2> QED
      BY <2>4, <2>5, <2>6, <2>8, <2>9 DEF StreamIInv
  <1> QED
    BY <1>1, <1>2

\* A cancel is armed for the current session, with the intent for it.
LEMMA StreamArmCancelIInv == ASSUME StreamIInv, AsrStream!ArmCancel PROVE StreamIInv'
  <1> USE DEF AsrStream!ArmCancel, AsrStream!textVars, AsrStream!nativeVars
  <1>1. /\ StreamTypeOK' /\ StreamUnwritten' /\ StreamOneBegin' /\ StreamAnswerHolds'
        /\ AsrStream!ClosedIsSettled'
    BY DEF StreamIInv, StreamTypeOK, StreamUnwritten, StreamBeginning, StreamOneBegin,
       StreamAnswerHolds, AsrStream!Got, AsrStream!ClosedIsSettled
  <1>2. StreamArmed' /\ StreamFresh' /\ StreamReceiptHolds' /\ AsrStream!CancelIsCurrent'
    BY DEF StreamIInv, StreamTypeOK, StreamArmed, StreamFresh, StreamBeginning,
       StreamReceiptHolds, AsrStream!CancelIsCurrent
  <1> QED
    BY <1>1, <1>2 DEF StreamIInv

\* A control enters, unless one is inside or the receipt is there.
LEMMA StreamRequestCancelIInv ==
  ASSUME StreamIInv, NEW c \in Caller, AsrStream!RequestCancel(c) PROVE StreamIInv'
  <1> USE DEF AsrStream!RequestCancel, AsrStream!textVars, AsrStream!nativeVars
  <1>0. control' \in [Caller -> StreamOutside]
    BY DEF StreamIInv, StreamTypeOK, StreamArmed, StreamOutside
  <1>1. /\ StreamTypeOK' /\ StreamUnwritten' /\ StreamOneBegin' /\ StreamAnswerHolds'
        /\ AsrStream!ClosedIsSettled'
    BY <1>0 DEF StreamIInv, StreamTypeOK, StreamUnwritten, StreamBeginning, StreamOneBegin,
       StreamAnswerHolds, AsrStream!Got, AsrStream!ClosedIsSettled
  <1>2. StreamArmed' /\ intent' # 0 /\ (intent # 0 => intent' = intent)
    BY DEF StreamIInv, StreamTypeOK, StreamArmed
  <1>3. ~inControl => \A d \in Caller : control[d].pc = "idle"
    BY DEF StreamIInv, AsrStream!CancelIsCurrent
  <1>4. StreamFresh' /\ StreamReceiptHolds' /\ AsrStream!CancelIsCurrent'
    BY <1>2, <1>3 DEF StreamIInv, StreamTypeOK, StreamArmed, StreamFresh, StreamBeginning,
       StreamReceiptHolds, AsrStream!CancelIsCurrent
  <1> QED
    BY <1>1, <1>2, <1>4 DEF StreamIInv

\* A control writes its line once the session has begun.
LEMMA StreamWriteCancelIInv ==
  ASSUME StreamIInv, NEW c \in Caller, AsrStream!WriteCancel(c) PROVE StreamIInv'
  <1> USE DEF AsrStream!WriteCancel, AsrStream!textVars
  <1> DEFINE new == [line |-> "cancel", s |-> control[c].s]
  <1>0. /\ control' \in [Caller -> StreamOutside] /\ new \in StreamLine
        /\ wire' = Append(wire, new) /\ control[c].s = sid /\ sid \in begun
    BY DEF StreamIInv, StreamTypeOK, StreamArmed, StreamOutside, StreamLine,
       AsrStream!CancelIsCurrent, StreamReceiptHolds
  <1>1. StreamTypeOK'
    BY <1>0 DEF StreamIInv, StreamTypeOK
  <1>2. /\ DOMAIN wire' = DOMAIN wire \cup {Len(wire) + 1} /\ Len(wire) \in Nat
        /\ wire'[Len(wire) + 1] = new
        /\ \A i \in DOMAIN wire : wire'[i] = wire[i] /\ i < Len(wire) + 1
    BY <1>0 DEF StreamIInv, StreamTypeOK
  <1>3. StreamUnwritten' /\ StreamOneBegin'
    BY <1>0, <1>2 DEF StreamIInv, StreamTypeOK, StreamUnwritten, StreamBeginning, StreamOneBegin
  <1>4. StreamArmed' /\ StreamAnswerHolds' /\ AsrStream!ClosedIsSettled'
    BY DEF StreamIInv, StreamArmed, StreamAnswerHolds, AsrStream!Got, AsrStream!ClosedIsSettled
  <1>5. StreamFresh' /\ StreamReceiptHolds' /\ AsrStream!CancelIsCurrent'
    BY DEF StreamIInv, StreamTypeOK, StreamOutside, StreamFresh, StreamBeginning,
       StreamReceiptHolds, AsrStream!CancelIsCurrent
  <1> QED
    BY <1>1, <1>3, <1>4, <1>5 DEF StreamIInv

\* A control leaves, with a receipt or without.
LEMMA StreamControlLeavesIInv ==
  ASSUME StreamIInv, NEW c \in Caller,
         AsrStream!ControlTimesOut(c) \/ AsrStream!ControlExit(c) \/ AsrStream!ReceiptArrives(c)
  PROVE  StreamIInv'
  <1> USE DEF AsrStream!ControlTimesOut, AsrStream!ControlExit, AsrStream!ReceiptArrives,
     AsrStream!ControlReturns, AsrStream!RecordReceipt, AsrStream!textVars,
     AsrStream!nativeVars
  <1>a. AsrStream!Out \in StreamOutside /\ AsrStream!Out.pc = "idle"
    BY DEF StreamOutside, AsrStream!Out
  <1>0. /\ control' = [control EXCEPT ![c] = AsrStream!Out] /\ inControl' = FALSE
        /\ control' \in [Caller -> StreamOutside] /\ control[c].pc # "idle"
    BY <1>a DEF StreamIInv, StreamTypeOK
  <1>1. StreamTypeOK'
    BY <1>0 DEF StreamIInv, StreamTypeOK
  <1>b. StreamUnwritten' /\ StreamOneBegin' /\ StreamAnswerHolds' /\ AsrStream!ClosedIsSettled'
    BY DEF StreamIInv, StreamUnwritten, StreamBeginning, StreamOneBegin, StreamAnswerHolds,
       AsrStream!Got, AsrStream!ClosedIsSettled
  <1>2. /\ intent' = intent /\ confirm' \in {confirm, intent}
        /\ confirm' # confirm => confirm' \notin held /\ control[c].pc = "receipted"
    BY DEF StreamIInv, StreamArmed, StreamReceiptHolds, AsrStream!CancelIsCurrent
  <1>3. \A d \in Caller : control'[d].pc = "idle"
    BY <1>a, <1>0 DEF StreamIInv, StreamTypeOK, AsrStream!CancelIsCurrent
  <1>4. StreamArmed' /\ StreamFresh' /\ StreamReceiptHolds' /\ AsrStream!CancelIsCurrent'
    BY <1>2, <1>3 DEF StreamIInv, StreamArmed, StreamFresh, StreamBeginning,
       StreamReceiptHolds, AsrStream!CancelIsCurrent
  <1> QED
    BY <1>1, <1>b, <1>4 DEF StreamIInv

\* Taking the first line leaves the others where they were.
LEMMA StreamTailOf ==
  ASSUME NEW q \in Seq(StreamLine), q # <<>>
  PROVE  /\ Head(q) = q[1] /\ 1 \in DOMAIN q /\ Head(q) \in StreamLine
         /\ Tail(q) \in Seq(StreamLine)
         /\ \A i \in DOMAIN Tail(q) : /\ i \in Nat \ {0} /\ i + 1 \in DOMAIN q
                                      /\ Tail(q)[i] = q[i + 1]
  OBVIOUS

\* What is left of the lines when the first is taken: a begin that is left was
\* behind it, and it was not one of the session.
LEMMA StreamTailIInv ==
  ASSUME StreamIInv, wire # <<>>, wire' = Tail(wire), sid' = sid, begun' = begun
  PROVE  /\ wire' \in Seq(StreamLine)
         /\ \A j \in DOMAIN wire' : wire'[j].s <= sid
         /\ (\A j \in DOMAIN wire : wire[j].s # sid) => \A j \in DOMAIN wire' : wire'[j].s # sid
         /\ \A i \in DOMAIN wire' : wire'[i].line = "begin" =>
               /\ StreamBeginning /\ consumer.pc = "wait" /\ wire'[i].s = sid
               /\ Head(wire).line # "begin" /\ Head(wire).s # sid
               /\ \A j \in DOMAIN wire' : /\ wire'[j].line = "begin" => j = i
                                          /\ j < i => wire'[j].s # sid
  <1>0. wire \in Seq(StreamLine)
    BY DEF StreamIInv, StreamTypeOK
  <1>1. /\ Head(wire) = wire[1] /\ 1 \in DOMAIN wire /\ wire' \in Seq(StreamLine)
        /\ \A i \in DOMAIN wire' : i \in Nat \ {0} /\ i + 1 \in DOMAIN wire /\ wire'[i] = wire[i + 1]
    BY <1>0, StreamTailOf
  <1>2. \A j \in DOMAIN wire' : wire'[j].s <= sid
    BY <1>1 DEF StreamIInv, StreamUnwritten
  <1>3. ASSUME NEW i \in DOMAIN wire', wire'[i].line = "begin"
        PROVE  /\ StreamBeginning /\ consumer.pc = "wait" /\ wire'[i].s = sid
               /\ Head(wire).line # "begin" /\ Head(wire).s # sid
               /\ \A j \in DOMAIN wire' : /\ wire'[j].line = "begin" => j = i
                                          /\ j < i => wire'[j].s # sid
    <2>1. i + 1 \in DOMAIN wire /\ wire[i + 1].line = "begin" /\ i \in Nat \ {0}
      BY <1>1, <1>3
    <2>2. /\ StreamBeginning /\ consumer.pc = "wait" /\ wire[i + 1].s = sid
          /\ \A j \in DOMAIN wire : /\ wire[j].line = "begin" => j = i + 1
                                    /\ j < i + 1 => wire[j].s # sid
      BY <2>1 DEF StreamIInv, StreamOneBegin
    <2>3. Head(wire).line # "begin" /\ Head(wire).s # sid
      BY <1>1, <2>1, <2>2
    <2>4. ASSUME NEW j \in DOMAIN wire'
          PROVE  (wire'[j].line = "begin" => j = i) /\ (j < i => wire'[j].s # sid)
      <3>1. j \in Nat /\ j + 1 \in DOMAIN wire /\ wire'[j] = wire[j + 1]
        BY <1>1
      <3> QED
        BY <2>1, <2>2, <3>1
    <2> QED
      BY <1>1, <2>2, <2>3, <2>4
  <1> QED
    BY <1>1, <1>2, <1>3

\* The worker answers the begin of a session: with a slot, or with an error.
LEMMA StreamBeginAnsweredIInv ==
  ASSUME StreamIInv, AsrStream!WorkerAnswers, Head(wire).line = "begin" PROVE StreamIInv'
  <1> USE DEF AsrStream!textVars, AsrStream!cancelVars
  <1>0. /\ wire # <<>> /\ wire' = Tail(wire)
        /\ UNCHANGED <<sid, audio, AsrStream!textVars, closed, begun, AsrStream!cancelVars, exits>>
    BY DEF AsrStream!WorkerAnswers
  <1>1. /\ 1 \in DOMAIN wire /\ wire[1] = Head(wire)
    BY <1>0, StreamTailOf DEF StreamIInv, StreamTypeOK
  <1>2. StreamBeginning /\ consumer.pc = "wait" /\ Head(wire).s = sid /\ consumer.s = sid
    BY <1>1 DEF StreamIInv, StreamOneBegin, StreamFresh
  <1>3. PICK r \in {"ack", "error"} :
          /\ held' \in {held, held \cup {sid}} /\ keptIds' = keptIds
          /\ consumer' = [consumer EXCEPT !.pc = "got", !.resp = r]
    BY <1>2 DEF AsrStream!WorkerAnswers, AsrStream!Answers, AsrStream!HoldAfter,
       AsrStream!Deliver
  <1>4. /\ consumer' \in StreamThread /\ consumer'.pc = "got" /\ consumer'.resp = r
        /\ consumer'.s = sid /\ held' \in SUBSET Nat /\ \A g \in held' : g <= sid
    BY <1>2, <1>3 DEF StreamIInv, StreamTypeOK, StreamThread, StreamUnwritten
  <1>5. StreamTypeOK'
    BY <1>0, <1>4, StreamTailIInv DEF StreamIInv, StreamTypeOK
  <1>6. ~StreamBeginning' /\ StreamAnswerHolds'
    BY <1>3, <1>4 DEF StreamBeginning, StreamAnswerHolds, AsrStream!Got
  <1>7. StreamUnwritten' /\ StreamFresh' /\ StreamOneBegin'
    BY <1>0, <1>1, <1>4, <1>6, StreamTailIInv DEF StreamIInv, StreamTypeOK, StreamUnwritten,
       StreamFresh, StreamOneBegin
  <1>8. StreamArmed' /\ StreamReceiptHolds' /\ AsrStream!CancelIsCurrent'
    BY <1>0, <1>2 DEF StreamIInv, StreamArmed, StreamFresh, StreamReceiptHolds,
       AsrStream!CancelIsCurrent
  <1>9. AsrStream!ClosedIsSettled'
    BY <1>0, <1>2 DEF StreamIInv, StreamFresh, AsrStream!ClosedIsSettled
  <1> QED
    BY <1>5, <1>6, <1>7, <1>8, <1>9 DEF StreamIInv

\* The worker answers another line, for a session that may be an older one.
LEMMA StreamLineAnsweredIInv ==
  ASSUME StreamIInv, AsrStream!WorkerAnswers, Head(wire).line # "begin" PROVE StreamIInv'
  <1> USE DEF AsrStream!textVars, AsrStream!cancelVars
  <1> DEFINE l == Head(wire)
  <1>0. /\ wire # <<>> /\ wire' = Tail(wire) /\ l.line # "cancel"
        /\ UNCHANGED <<sid, audio, AsrStream!textVars, closed, begun, AsrStream!cancelVars, exits>>
    BY DEF AsrStream!WorkerAnswers
  <1>1. l \in StreamLine /\ l.line \in {"chunk", "last", "end"}
    BY <1>0, StreamTailOf DEF StreamIInv, StreamTypeOK, StreamLine
  <1>2. PICK r \in {"partial", "rotation", "final", "ended", "error"} :
          /\ held' \in {held, held \ {l.s}} /\ (r = "ended" => held' = held \ {l.s})
          /\ keptIds \subseteq keptIds' /\ (r = "final" => l.s \notin held' \/ l.s \in keptIds')
          /\ consumer' = IF consumer.pc = "wait" /\ consumer.s = l.s
                         THEN [consumer EXCEPT !.pc = "got", !.resp = r] ELSE consumer
    BY <1>1 DEF AsrStream!WorkerAnswers, AsrStream!Answers, AsrStream!HoldAfter,
       AsrStream!Deliver
  <1> HIDE DEF l
  <1>3. /\ consumer' \in StreamThread /\ consumer'.s = consumer.s /\ consumer'.line = consumer.line
        /\ consumer' # consumer => /\ consumer.pc = "wait" /\ consumer.s = l.s
                                   /\ consumer'.pc = "got" /\ consumer'.resp = r
    BY <1>2 DEF StreamIInv, StreamTypeOK, StreamThread
  <1>4. StreamTypeOK'
    BY <1>0, <1>2, <1>3, StreamTailIInv DEF StreamIInv, StreamTypeOK
  <1>5. StreamBeginning' => StreamBeginning /\ consumer' = consumer
    BY <1>3 DEF StreamBeginning
  <1>6. StreamAnswerHolds'
    BY <1>2, <1>3 DEF StreamIInv, StreamAnswerHolds, AsrStream!Got
  <1>7. StreamFresh'
    BY <1>0, <1>2, <1>3, <1>5 DEF StreamIInv, StreamFresh
  <1>8. StreamUnwritten'
    BY <1>0, <1>2, <1>3, <1>5, StreamTailIInv DEF StreamIInv, StreamUnwritten
  <1>9. StreamOneBegin'
    <2>1. ASSUME NEW i \in DOMAIN wire', wire'[i].line = "begin"
          PROVE  consumer' = consumer
      BY <1>0, <1>3, <2>1, StreamTailIInv DEF StreamIInv, StreamFresh, l
    <2> QED
      BY <1>0, <2>1, StreamTailIInv DEF StreamOneBegin, StreamBeginning
  <1>10. StreamArmed' /\ StreamReceiptHolds' /\ AsrStream!CancelIsCurrent'
    BY <1>0, <1>2 DEF StreamIInv, StreamArmed, StreamReceiptHolds, AsrStream!CancelIsCurrent
  <1>11. AsrStream!ClosedIsSettled'
    BY <1>0, <1>2 DEF StreamIInv, AsrStream!ClosedIsSettled
  <1> QED
    BY <1>4, <1>6, <1>7, <1>8, <1>9, <1>10, <1>11 DEF StreamIInv

\* The worker cancels a session that has a slot, and tells both who wait for it.
LEMMA StreamWorkerCancelsIInv == ASSUME StreamIInv, AsrStream!WorkerCancels PROVE StreamIInv'
  <1> USE DEF AsrStream!textVars
  <1> DEFINE s == Head(wire).s
  <1>0. /\ wire # <<>> /\ wire' = Tail(wire) /\ held' \in {held, held \ {s}}
        /\ UNCHANGED <<sid, audio, AsrStream!textVars, closed, begun, armed, intent, confirm,
                       exitSeen, inControl, keptIds, exits>>
    BY DEF AsrStream!WorkerCancels
  <1>1. \/ held' = held /\ UNCHANGED <<consumer, control>>
        \/ /\ s \in held /\ held' = held \ {s}
           /\ consumer' = IF consumer.pc = "wait" /\ consumer.s = s
                          THEN [consumer EXCEPT !.pc = "got", !.resp = "cancelled"] ELSE consumer
           /\ control' = [c \in Caller |->
                 IF control[c] = [pc |-> "receipt", s |-> s]
                 THEN [control[c] EXCEPT !.pc = "receipted"] ELSE control[c]]
    BY DEF AsrStream!WorkerCancels, AsrStream!Deliver
  <1> HIDE DEF s
  <1>2. /\ consumer' \in StreamThread /\ consumer'.s = consumer.s /\ consumer'.line = consumer.line
        /\ consumer' # consumer => /\ consumer.pc = "wait" /\ consumer.s = s /\ s \in held
                                   /\ consumer'.pc = "got" /\ consumer'.resp = "cancelled"
                                   /\ s \notin held'
    BY <1>1 DEF StreamIInv, StreamTypeOK, StreamThread
  <1>3. /\ control' \in [Caller -> StreamOutside]
        /\ \A c \in Caller : /\ control'[c].s = control[c].s
                             /\ control'[c].pc # "idle" <=> control[c].pc # "idle"
                             /\ control'[c] # control[c] => /\ control[c].s = s /\ s \in held
                                                            /\ s \notin held'
    <2>1. CASE UNCHANGED control
      BY <2>1 DEF StreamIInv, StreamTypeOK
    <2>2. CASE /\ s \in held /\ held' = held \ {s}
               /\ control' = [c \in Caller |->
                     IF control[c] = [pc |-> "receipt", s |-> s]
                     THEN [control[c] EXCEPT !.pc = "receipted"] ELSE control[c]]
      <3>1. ASSUME NEW c \in Caller
            PROVE  /\ control'[c] \in StreamOutside /\ control'[c].s = control[c].s
                   /\ control'[c].pc # "idle" <=> control[c].pc # "idle"
                   /\ control'[c] # control[c] => control[c].s = s
        <4>1. control[c] \in StreamOutside
          BY DEF StreamIInv, StreamTypeOK
        <4>2. CASE control[c] = [pc |-> "receipt", s |-> s]
          <5>1. control'[c] = [control[c] EXCEPT !.pc = "receipted"]
            BY <2>2, <4>2
          <5> QED
            BY <4>1, <4>2, <5>1 DEF StreamOutside
        <4>3. CASE control[c] # [pc |-> "receipt", s |-> s]
          BY <2>2, <4>1, <4>3
        <4> QED
          BY <4>2, <4>3
      <3>2. control' \in [Caller -> StreamOutside]
        BY <2>2, <3>1
      <3> QED
        BY <2>2, <3>1, <3>2
    <2> QED
      BY <1>1, <2>1, <2>2
  <1>4. StreamTypeOK'
    BY <1>0, <1>2, <1>3, StreamTailIInv DEF StreamIInv, StreamTypeOK
  <1>5. StreamBeginning <=> StreamBeginning'
    BY <1>2 DEF StreamIInv, StreamFresh, StreamBeginning
  <1>6. StreamBeginning => consumer' = consumer
    BY <1>2 DEF StreamIInv, StreamFresh, StreamBeginning
  <1>7. StreamAnswerHolds'
    BY <1>0, <1>2 DEF StreamIInv, StreamAnswerHolds, AsrStream!Got
  <1>8. StreamFresh'
    <2>1. ASSUME StreamBeginning, NEW c \in Caller PROVE control'[c].pc # "receipted"
      BY <1>0, <1>3, <2>1 DEF StreamIInv, StreamFresh, StreamArmed, StreamReceiptHolds,
         AsrStream!CancelIsCurrent, StreamTypeOK, StreamOutside
    <2> QED
      BY <1>0, <1>5, <1>6, <2>1 DEF StreamIInv, StreamFresh
  <1>9. StreamUnwritten' /\ StreamOneBegin'
    BY <1>0, <1>2, <1>5, <1>6, StreamTailIInv DEF StreamIInv, StreamUnwritten, StreamOneBegin
  <1>10. StreamArmed' /\ StreamReceiptHolds' /\ AsrStream!CancelIsCurrent'
    BY <1>0, <1>3 DEF StreamIInv, StreamArmed, StreamReceiptHolds, AsrStream!CancelIsCurrent
  <1>11. AsrStream!ClosedIsSettled'
    BY <1>0 DEF StreamIInv, AsrStream!ClosedIsSettled
  <1> QED
    BY <1>4, <1>7, <1>8, <1>9, <1>10, <1>11 DEF StreamIInv

\* The worker dies: no slot is left and no line.
LEMMA StreamWorkerDiesIInv == ASSUME StreamIInv, AsrStream!WorkerDies PROVE StreamIInv'
  <1> USE DEF AsrStream!textVars
  <1>0. /\ held' = {} /\ wire' = <<>>
        /\ UNCHANGED <<sid, audio, AsrStream!textVars, closed, begun, armed, intent, confirm,
                       exitSeen, inControl, keptIds>>
    BY DEF AsrStream!WorkerDies
  <1>1. /\ consumer' \in StreamThread /\ consumer'.s = consumer.s /\ consumer'.line = consumer.line
        /\ consumer' # consumer => consumer'.pc = "got" /\ consumer'.resp = "error"
    BY DEF AsrStream!WorkerDies, StreamIInv, StreamTypeOK, StreamThread
  <1>2. /\ control' \in [Caller -> StreamOutside]
        /\ \A c \in Caller : /\ control'[c].s = control[c].s
                             /\ control'[c].pc # "idle" <=> control[c].pc # "idle"
                             /\ control'[c].pc = "receipted" => control[c].pc = "receipted"
    BY DEF AsrStream!WorkerDies, StreamIInv, StreamTypeOK, StreamOutside
  <1>3. StreamTypeOK'
    <2>1. <<>> \in Seq(StreamLine) /\ DOMAIN wire' = {}
      BY <1>0
    <2> QED
      BY <1>0, <1>1, <1>2, <2>1 DEF StreamIInv, StreamTypeOK
  <1>4. StreamBeginning' => StreamBeginning /\ consumer' = consumer
    BY <1>1 DEF StreamBeginning
  <1>5. DOMAIN wire' = {}
    BY <1>0
  <1>6. StreamAnswerHolds' /\ StreamFresh'
    BY <1>0, <1>1, <1>2, <1>4 DEF StreamIInv, StreamAnswerHolds, StreamFresh, AsrStream!Got
  <1>7. StreamUnwritten' /\ StreamOneBegin'
    BY <1>0, <1>1, <1>4, <1>5 DEF StreamIInv, StreamUnwritten, StreamOneBegin
  <1>8. /\ StreamArmed' /\ StreamReceiptHolds'
        /\ AsrStream!CancelIsCurrent' /\ AsrStream!ClosedIsSettled'
    BY <1>0, <1>2 DEF StreamIInv, StreamArmed, StreamReceiptHolds,
       AsrStream!CancelIsCurrent, AsrStream!ClosedIsSettled
  <1> QED
    BY <1>3, <1>6, <1>7, <1>8 DEF StreamIInv

\* Every step keeps the invariant.
LEMMA StreamNextIInv ==
  ASSUME StreamIInv, [AsrStream!Next]_(AsrStream!asrStreamVars) PROVE StreamIInv'
  <1>1. CASE UNCHANGED AsrStream!asrStreamVars
    BY <1>1 DEF AsrStream!asrStreamVars, StreamIInv, StreamTypeOK, StreamArmed,
       StreamBeginning, StreamUnwritten, StreamFresh, StreamOneBegin, StreamAnswerHolds,
       AsrStream!Got, StreamReceiptHolds, AsrStream!CancelIsCurrent,
       AsrStream!ClosedIsSettled
  <1>2. CASE AsrStream!WorkerAnswers
    BY <1>2, StreamBeginAnsweredIInv, StreamLineAnsweredIInv
  <1> QED
    BY <1>1, <1>2, StreamConsumerIInv, StreamSendIInv, StreamChunkAnsweredIInv,
       StreamCancelledIInv, StreamRotateIInv, StreamArmCancelIInv, StreamRequestCancelIInv,
       StreamWriteCancelIInv, StreamControlLeavesIInv, StreamWorkerCancelsIInv,
       StreamWorkerDiesIInv DEF AsrStream!Next

\* What a step does once the cancel of the session is armed.
LEMMA StreamStepFrozen ==
  [AsrStream!Next]_(AsrStream!asrStreamVars)
    => [(sid \in armed) => (sid' = sid /\ UNCHANGED AsrStream!textVars)]_(AsrStream!asrStreamVars)
  <1> SUFFICES ASSUME AsrStream!Next, sid \in armed PROVE sid' = sid /\ UNCHANGED AsrStream!textVars
    OBVIOUS
  <1>1. CASE AsrStream!ChunkAnswered
    BY <1>1 DEF AsrStream!ChunkAnswered, AsrStream!Writable, AsrStream!textVars
  <1>2. CASE AsrStream!Rotate
    BY <1>2 DEF AsrStream!Rotate, AsrStream!Writable, AsrStream!textVars
  <1> QED
    BY <1>1, <1>2 DEF AsrStream!Next, AsrStream!AcceptWaveform, AsrStream!Finalize,
       AsrStream!Close, AsrStream!Send, AsrStream!Raise, AsrStream!Cancelled,
       AsrStream!BeginAcked, AsrStream!Ended, AsrStream!ArmCancel, AsrStream!RequestCancel,
       AsrStream!WriteCancel, AsrStream!ControlTimesOut, AsrStream!ControlExit,
       AsrStream!ReceiptArrives, AsrStream!ControlReturns, AsrStream!WorkerAnswers,
       AsrStream!WorkerCancels, AsrStream!WorkerDies

HIDE DEF StreamRequest

\* A cancel is about the session that is current and is confirmed for that one alone, and
\* a closed stream has a slot only if its worker kept it at the final answer, for any
\* number of sessions, controls and exits.
THEOREM StreamSettled == Spec => []StreamIsSettled
  <1>1. Init => StreamIInv
    BY StreamInitIInv DEF Init
  <1>2. StreamIInv /\ [Next]_vars => StreamIInv'
    <2>1. [Next]_vars => AsrStream!Next \/ UNCHANGED asrStreamState
      BY DEF Next, vars
    <2>2. UNCHANGED asrStreamState => UNCHANGED AsrStream!asrStreamVars
      BY DEF AsrStream!asrStreamVars, asrStreamState
    <2> QED
      BY <2>1, <2>2, StreamNextIInv
  <1>3. StreamIInv => StreamIsSettled
    BY DEF StreamIInv, StreamIsSettled, AsrStream!StreamIsSettled
  <1> QED
    BY <1>1, <1>2, <1>3, PTL DEF Spec

\* No late answer changes the text of a session whose cancel is armed, and no rotation
\* leaves it.
THEOREM CancelFreezes == Spec => CancelFreezesText
  <1>1. [Next]_vars => [AsrStream!Next]_(AsrStream!asrStreamVars)
    <2>1. [Next]_vars => AsrStream!Next \/ UNCHANGED asrStreamState
      BY DEF Next, vars
    <2>2. UNCHANGED asrStreamState => UNCHANGED AsrStream!asrStreamVars
      BY DEF AsrStream!asrStreamVars, asrStreamState
    <2> QED
      BY <2>1, <2>2
  <1> QED
    BY <1>1, StreamStepFrozen, PTL DEF Spec, CancelFreezesText, AsrStream!CancelFreezesText

(***************************************************************************)
(* The lifecycle lock of the RK TTS backend.                               *)
(***************************************************************************)
RkAlive == {"created", "ready", "broken"}
RkOps   == {"none", "preload", "unload", "synthesize", "stream"}

\* What the variables are.
RkTypeOK ==
    /\ rkOwner \in [Rk!Owner -> {"unborn", "gone"} \cup RkAlive]
    /\ rkInner \in 0 .. MaxOwner
    /\ lifecycleFailed \in BOOLEAN /\ cachedReady \in BOOLEAN
    /\ lifecycleLock \in Caller \cup {NoCaller}
    /\ rkCall \in [Caller -> [op : RkOps, borrows : 0 .. MaxOwner]]

\* Who is in a call has the lock, and who has it is in a call.
RkLockIsHeld ==
    /\ \A c \in Caller : rkCall[c].op # "none" <=> lifecycleLock = c

\* The owner at hand is alive; it is broken exactly when the flag says so, and
\* it is ready unless somebody is loading it.
InnerIsKnown ==
    /\ lifecycleFailed => rkInner # 0
    /\ rkInner # 0 =>
          /\ rkOwner[rkInner] \in RkAlive
          /\ rkOwner[rkInner] = "broken" <=> lifecycleFailed
          /\ rkOwner[rkInner] = "created" => \E c \in Caller : rkCall[c].op = "preload"

\* preload and unload work on an owner, preload on one that has not failed.
LoaderHasOwner ==
    \A c \in Caller :
        /\ rkCall[c].op \in {"preload", "unload"} => rkInner # 0
        /\ rkCall[c].op = "preload" => ~lifecycleFailed

\* The inductive invariant.
RkIInv == RkTypeOK /\ RkLockIsHeld /\ InnerIsKnown /\ LoaderHasOwner /\ Rk!RkOwnerSafe

USE DEF Rk!Owner, RkAlive, RkOps

\* The constants: the holder of a free lock is no thread.
RkConstants == MaxOwner \in Nat /\ NoCaller \notin Caller

\* It holds at the start.
LEMMA RkInitIInv == ASSUME RkConstants, Rk!Init PROVE RkIInv
  <1> USE DEF RkConstants, Rk!Init
  <1>1. Rk!Out \in [op : RkOps, borrows : 0 .. MaxOwner] /\ Rk!Out.op = "none"
    BY DEF Rk!Out
  <1>2. /\ rkCall \in [Caller -> [op : RkOps, borrows : 0 .. MaxOwner]]
        /\ \A c \in Caller : rkCall[c].op = "none"
    BY <1>1
  <1>3. RkTypeOK
    <2>1. rkOwner \in [Rk!Owner -> {"unborn", "gone"} \cup RkAlive]
      OBVIOUS
    <2>2. lifecycleFailed \in BOOLEAN /\ cachedReady \in BOOLEAN
      BY Zenon
    <2>3. rkInner \in 0 .. MaxOwner /\ lifecycleLock \in Caller \cup {NoCaller}
      OBVIOUS
    <2> QED
      BY <1>2, <2>1, <2>2, <2>3 DEF RkTypeOK
  <1>4. RkLockIsHeld /\ InnerIsKnown /\ LoaderHasOwner
    BY <1>2 DEF RkLockIsHeld, InnerIsKnown, LoaderHasOwner
  <1>5. Rk!RkOwnerSafe
    BY <1>2 DEF Rk!RkOwnerSafe, Rk!BorrowedIsReady, Rk!OwnersAreKept, Rk!BrokenIsNotReady
  <1> QED
    BY <1>3, <1>4, <1>5 DEF RkIInv

\* A thread takes or leaves the lock: what becomes of the calls.
LEMMA RkCalls ==
  ASSUME RkConstants, RkIInv, NEW c \in Caller
  PROVE  /\ \A op \in RkOps \ {"none"}, o \in 0 .. MaxOwner : Rk!Enter(c, op, o) =>
                /\ \A d \in Caller : rkCall[d].op = "none"
                /\ lifecycleLock' = c
                /\ rkCall' \in [Caller -> [op : RkOps, borrows : 0 .. MaxOwner]]
                /\ rkCall'[c].op = op /\ rkCall'[c].borrows = o
                /\ \A d \in Caller \ {c} : rkCall'[d].op = "none"
         /\ rkCall[c].op # "none" /\ Rk!Leave(c) =>
                /\ \A d \in Caller \ {c} : rkCall[d].op = "none"
                /\ lifecycleLock' = NoCaller
                /\ rkCall' \in [Caller -> [op : RkOps, borrows : 0 .. MaxOwner]]
                /\ \A d \in Caller : rkCall'[d].op = "none"
  <1> USE DEF RkConstants, RkIInv, RkTypeOK, RkLockIsHeld
  <1>1. ASSUME NEW op \in RkOps \ {"none"}, NEW o \in 0 .. MaxOwner, Rk!Enter(c, op, o)
        PROVE  /\ \A d \in Caller : rkCall[d].op = "none"
               /\ lifecycleLock' = c
               /\ rkCall' \in [Caller -> [op : RkOps, borrows : 0 .. MaxOwner]]
               /\ rkCall'[c].op = op /\ rkCall'[c].borrows = o
               /\ \A d \in Caller \ {c} : rkCall'[d].op = "none"
    BY <1>1 DEF Rk!Enter, Rk!In
  <1>2. ASSUME rkCall[c].op # "none", Rk!Leave(c)
        PROVE  /\ \A d \in Caller \ {c} : rkCall[d].op = "none"
               /\ lifecycleLock' = NoCaller
               /\ rkCall' \in [Caller -> [op : RkOps, borrows : 0 .. MaxOwner]]
               /\ \A d \in Caller : rkCall'[d].op = "none"
    BY <1>2 DEF Rk!Leave, Rk!Out
  <1> QED
    BY <1>1, <1>2

\* What the state must be for the invariant once nobody is in a call.
LEMMA RkQuietIInv ==
  ASSUME RkConstants, RkTypeOK', lifecycleLock' = NoCaller,
         \A d \in Caller : rkCall'[d].op = "none",
         lifecycleFailed' => rkInner' # 0,
         rkInner' # 0 => /\ rkOwner'[rkInner'] \in {"ready", "broken"}
                         /\ rkOwner'[rkInner'] = "broken" <=> lifecycleFailed',
         \A o \in Rk!Owner : rkOwner'[o] \in RkAlive => rkInner' = o,
         status' # "broken"
  PROVE  RkIInv'
  BY DEF RkConstants, RkIInv, RkLockIsHeld, InnerIsKnown, LoaderHasOwner, Rk!RkOwnerSafe,
         Rk!BorrowedIsReady, Rk!OwnersAreKept, Rk!BrokenIsNotReady

\* Every step keeps the invariant.
LEMMA RkNextIInv == ASSUME RkConstants, RkIInv, [Rk!Next]_(Rk!rkTtsVars) PROVE RkIInv'
  <1> USE DEF RkConstants
  <1>1. ASSUME NEW c \in Caller, Rk!BeginPreload(c) PROVE RkIInv'
    <2>1. PICK o \in Rk!Owner :
             /\ Rk!Enter(c, "preload", o) /\ rkInner' = o
             /\ IF rkInner # 0 THEN o = rkInner ELSE rkOwner[o] = "unborn"
             /\ rkOwner' = [rkOwner EXCEPT ![o] = IF rkInner = 0 THEN "created" ELSE @]
      <3>1. CASE rkInner = 0
        BY <1>1, <3>1 DEF Rk!BeginPreload
      <3>2. CASE rkInner # 0
        <4>1. rkInner \in Rk!Owner
          BY <3>2 DEF RkIInv, RkTypeOK
        <4> QED
          BY <1>1, <3>2, <4>1 DEF Rk!BeginPreload
      <3> QED
        BY <3>1, <3>2
    <2>2. /\ lifecycleLock' = c /\ rkCall'[c].op = "preload" /\ rkCall'[c].borrows = o
          /\ \A d \in Caller \ {c} : rkCall'[d].op = "none"
          /\ rkCall' \in [Caller -> [op : RkOps, borrows : 0 .. MaxOwner]]
      BY <2>1, RkCalls
    <2>3. RkTypeOK'
      BY <1>1, <2>1, <2>2 DEF Rk!BeginPreload, RkIInv, RkTypeOK
    <2>4. RkLockIsHeld' /\ LoaderHasOwner'
      BY <1>1, <2>1, <2>2 DEF Rk!BeginPreload, RkLockIsHeld, LoaderHasOwner
    <2>5. InnerIsKnown'
      <3>1. CASE rkInner = 0
        BY <1>1, <2>1, <2>2, <3>1 DEF Rk!BeginPreload, RkIInv, RkTypeOK, InnerIsKnown
      <3>2. CASE rkInner # 0
        BY <1>1, <2>1, <2>2, <3>2 DEF Rk!BeginPreload, RkIInv, RkTypeOK, InnerIsKnown
      <3> QED
        BY <3>1, <3>2
    <2>6. Rk!OwnersAreKept'
      BY <1>1, <2>1 DEF RkIInv, RkTypeOK, Rk!RkOwnerSafe, Rk!OwnersAreKept
    <2>7. Rk!BorrowedIsReady' /\ Rk!BrokenIsNotReady'
      BY <1>1, <2>2
         DEF Rk!BeginPreload, RkIInv, Rk!RkOwnerSafe, Rk!BorrowedIsReady, Rk!BrokenIsNotReady
    <2> QED
      BY <2>3, <2>4, <2>5, <2>6, <2>7 DEF RkIInv, Rk!RkOwnerSafe
  <1>2. ASSUME NEW c \in Caller, Rk!PreloadDone(c) PROVE RkIInv'
    <2>1. rkCall[c].op # "none" /\ Rk!Leave(c) /\ rkInner # 0 /\ ~lifecycleFailed
      BY <1>2 DEF Rk!PreloadDone, Rk!In, RkIInv, LoaderHasOwner
    <2>2. rkOwner' = [rkOwner EXCEPT ![rkInner] = "ready"] /\ UNCHANGED <<rkInner, lifecycleFailed, status>>
      BY <1>2 DEF Rk!PreloadDone
    <2>3. RkTypeOK'
      BY <1>2, <2>1, <2>2, RkCalls DEF Rk!PreloadDone, RkIInv, RkTypeOK
    <2> QED
      BY <2>1, <2>2, <2>3, RkCalls, RkQuietIInv
         DEF RkIInv, RkTypeOK, Rk!RkOwnerSafe, Rk!OwnersAreKept, Rk!BrokenIsNotReady
  <1>3. ASSUME NEW c \in Caller, NEW works \in BOOLEAN, rkInner # 0, rkCall[c].op # "none",
               Rk!Leave(c), Rk!Teardown(works), cachedReady' \in BOOLEAN, UNCHANGED status
        PROVE  RkIInv'
    <2>1. rkInner \in Rk!Owner
      BY <1>3 DEF RkIInv, RkTypeOK
    <2>2. RkTypeOK'
      BY <1>3, <2>1, RkCalls DEF Rk!Teardown, RkIInv, RkTypeOK
    <2>3. CASE works
      BY <1>3, <2>1, <2>2, <2>3, RkCalls, RkQuietIInv
         DEF Rk!Teardown, RkIInv, RkTypeOK, Rk!RkOwnerSafe, Rk!OwnersAreKept, Rk!BrokenIsNotReady
    <2>4. CASE ~works
      BY <1>3, <2>1, <2>2, <2>4, RkCalls, RkQuietIInv
         DEF Rk!Teardown, RkIInv, RkTypeOK, Rk!RkOwnerSafe, Rk!OwnersAreKept, Rk!BrokenIsNotReady
    <2> QED
      BY <2>3, <2>4
  <1>4. ASSUME NEW c \in Caller, Rk!PreloadFails(c) \/ Rk!UnloadDone(c) \/ Rk!UnloadFails(c) PROVE RkIInv'
    <2>1. /\ rkInner # 0 /\ rkCall[c].op # "none" /\ Rk!Leave(c) /\ UNCHANGED status
          /\ cachedReady' \in BOOLEAN
          /\ \E works \in BOOLEAN : Rk!Teardown(works)
      BY <1>4
         DEF Rk!PreloadFails, Rk!UnloadDone, Rk!UnloadFails, Rk!In, RkIInv, RkTypeOK,
             LoaderHasOwner
    <2> QED
      BY <1>3, <2>1
  <1>5. ASSUME NEW c \in Caller, Rk!BeginUnload(c) PROVE RkIInv'
    <2>1. /\ lifecycleLock' = c /\ rkCall'[c].op = "unload"
          /\ \A d \in Caller : rkCall[d].op = "none"
          /\ \A d \in Caller \ {c} : rkCall'[d].op = "none"
          /\ rkCall' \in [Caller -> [op : RkOps, borrows : 0 .. MaxOwner]]
      BY <1>5, RkCalls DEF Rk!BeginUnload
    <2> QED
      BY <1>5, <2>1
         DEF Rk!BeginUnload, RkIInv, RkTypeOK, RkLockIsHeld, InnerIsKnown, LoaderHasOwner,
                        Rk!RkOwnerSafe, Rk!BorrowedIsReady, Rk!OwnersAreKept, Rk!BrokenIsNotReady
  <1>6. ASSUME NEW c \in Caller, Rk!BeginSynthesis(c) PROVE RkIInv'
    <2>1. PICK op \in {"synthesize", "stream"} : Rk!Enter(c, op, rkInner)
      BY <1>6 DEF Rk!BeginSynthesis
    <2>2. /\ lifecycleLock' = c /\ rkCall'[c].op = op /\ rkCall'[c].borrows = rkInner
          /\ \A d \in Caller : rkCall[d].op = "none"
          /\ \A d \in Caller \ {c} : rkCall'[d].op = "none"
          /\ rkCall' \in [Caller -> [op : RkOps, borrows : 0 .. MaxOwner]]
      BY <2>1, RkCalls DEF RkIInv, RkTypeOK
    <2>3. rkOwner[rkInner] = "ready"
      BY <1>6, <2>2 DEF Rk!BeginSynthesis, Rk!Usable, RkIInv, InnerIsKnown
    <2> QED
      BY <1>6, <2>2, <2>3
         DEF Rk!BeginSynthesis, RkIInv, RkTypeOK, RkLockIsHeld, InnerIsKnown, LoaderHasOwner,
                        Rk!RkOwnerSafe, Rk!BorrowedIsReady, Rk!OwnersAreKept, Rk!BrokenIsNotReady
  <1>7. ASSUME NEW c \in Caller, Rk!EndSynthesis(c) PROVE RkIInv'
    <2>1. rkCall[c].op \in {"synthesize", "stream"} /\ Rk!Leave(c)
      BY <1>7 DEF Rk!EndSynthesis, Rk!In
    <2>2. UNCHANGED <<rkOwner, rkInner, lifecycleFailed, cachedReady, status>>
      BY <1>7 DEF Rk!EndSynthesis
    <2>3. RkTypeOK'
      BY <2>1, <2>2, RkCalls DEF RkIInv, RkTypeOK
    <2>4. rkInner # 0 => rkOwner[rkInner] \in {"ready", "broken"}
      BY <2>1, RkCalls DEF RkIInv, InnerIsKnown
    <2> QED
      BY <2>1, <2>2, <2>3, <2>4, RkCalls, RkQuietIInv
         DEF RkIInv, InnerIsKnown, Rk!RkOwnerSafe, Rk!OwnersAreKept, Rk!BrokenIsNotReady
  <1>8. CASE Rk!AskBusy \/ Rk!AskFree
    <2>1. status' # "broken"
      BY <1>8 DEF Rk!AskBusy, Rk!AskFree, Rk!Reported, Rk!Usable, RkIInv, InnerIsKnown
    <2>2. /\ UNCHANGED <<rkOwner, rkInner, lifecycleFailed, lifecycleLock, rkCall>>
          /\ cachedReady' \in BOOLEAN
      BY <1>8 DEF Rk!AskBusy, Rk!AskFree, RkIInv, RkTypeOK
    <2> QED
      BY <2>1, <2>2 DEF RkIInv, RkTypeOK, RkLockIsHeld, InnerIsKnown, LoaderHasOwner,
                        Rk!RkOwnerSafe, Rk!BorrowedIsReady, Rk!OwnersAreKept, Rk!BrokenIsNotReady
  <1>9. CASE UNCHANGED Rk!rkTtsVars
    BY <1>9 DEF Rk!rkTtsVars, RkIInv, RkTypeOK, RkLockIsHeld, InnerIsKnown, LoaderHasOwner,
                Rk!RkOwnerSafe, Rk!BorrowedIsReady, Rk!OwnersAreKept, Rk!BrokenIsNotReady
  <1> QED
    BY <1>1, <1>2, <1>4, <1>5, <1>6, <1>7, <1>8, <1>9 DEF Rk!Next

\* No call reaches an RK owner that is not ready, none is lost, and a broken one is never
\* reported ready, for any number of threads and owners.
THEOREM RkSafe ==
  ASSUME MaxOwner \in Nat, NoCaller \notin Caller
  PROVE  Spec => []RkOwnerSafe
  <1>0. RkConstants
    BY DEF RkConstants
  <1>1. Init => RkIInv
    BY <1>0, RkInitIInv DEF Init
  <1>2. RkIInv /\ [Next]_vars => RkIInv'
    <2>1. [Next]_vars => Rk!Next \/ UNCHANGED rkState
      BY DEF Next, vars
    <2>2. UNCHANGED rkState => UNCHANGED Rk!rkTtsVars
      BY DEF Rk!rkTtsVars, rkState
    <2> QED
      BY <1>0, <2>1, <2>2, RkNextIInv
  <1>3. RkIInv => RkOwnerSafe
    BY DEF RkIInv, RkOwnerSafe
  <1> QED
    BY <1>1, <1>2, <1>3, PTL DEF Spec

HIDE DEF Rk!Owner, RkAlive, RkOps

(***************************************************************************)
(* MossWorker                                                              *)
(***************************************************************************)
\* The current process is one that was started, and the calls are of known stages.
MossTypeOK ==
    /\ mossGen \in Nat /\ mossProc \in 0 .. mossGen /\ mossAlive \subseteq 1 .. mossGen
    /\ table \subseteq Caller
    /\ mossCall \in [Caller -> {"idle", "register", "send", "wait", "shutdown", "preload",
                                "starting", "over"}]

MossIInv == MossTypeOK /\ Moss!OneMossProcess

\* While the current process does not run, none does.
LEMMA MossNoneRuns ==
  ASSUME MossIInv, ~Moss!Running(mossProc)
  PROVE  mossAlive = {}
  BY DEF MossIInv, MossTypeOK, Moss!OneMossProcess, Moss!Running

\* A caller that leaves the table, or was not in it, goes anywhere.
LEMMA MossLeaves ==
  ASSUME MossIInv, NEW c \in Caller,
         NEW where \in {"idle", "register", "send", "wait", "shutdown", "preload", "starting", "over"},
         Moss!Goes(c, where), UNCHANGED <<mossProc, mossAlive, mossGen>>,
         table' \subseteq table, c \notin table'
  PROVE  MossIInv'
  BY DEF MossIInv, MossTypeOK, Moss!OneMossProcess, Moss!Goes

\* What stops the process empties the table.
LEMMA MossStops ==
  ASSUME MossIInv, Moss!StopProcess,
         mossCall' \in [Caller -> {"idle", "register", "send", "wait", "shutdown", "preload",
                                   "starting", "over"}]
  PROVE  MossIInv'
  BY DEF MossIInv, MossTypeOK, Moss!OneMossProcess, Moss!StopProcess

\* A step of a caller.
LEMMA MossCallerIInv ==
  ASSUME MossIInv, NEW c \in Caller,
         \/ Moss!Begin(c) \/ Moss!Register(c) \/ Moss!Send(c) \/ Moss!SendCancel(c)
         \/ Moss!TakeEvent(c) \/ Moss!RequestTimesOut(c) \/ Moss!Shutdown(c)
         \/ Moss!Preload(c) \/ Moss!Started(c) \/ Moss!StartTimesOut(c)
  PROVE  MossIInv'
  <1> USE DEF MossIInv, MossTypeOK
  <1>0. ASSUME Moss!Retry(c), UNCHANGED <<mossProc, mossAlive, mossGen>>
        PROVE  MossIInv'
    <2>1. table' = table \ {c}
      BY <1>0 DEF Moss!Retry, Moss!Forget
    <2>2. PICK where \in {"shutdown", "over"} : Moss!Goes(c, where)
      BY <1>0 DEF Moss!Retry
    <2> QED
      BY <1>0, <2>1, <2>2, MossLeaves
  <1>1. CASE Moss!Begin(c)
    BY <1>1, MossLeaves DEF Moss!Begin, Moss!OneMossProcess
  <1>2. CASE Moss!Register(c)
    BY <1>2 DEF Moss!Register, Moss!Goes, Moss!OneMossProcess
  <1>3. CASE Moss!Send(c)
    <2>1. CASE Moss!Running(mossProc)
      BY <1>3, <2>1 DEF Moss!Send, Moss!Goes, Moss!OneMossProcess
    <2> QED
      BY <1>0, <1>3, <2>1 DEF Moss!Send
  <1>4. CASE Moss!SendCancel(c)
    <2>1. CASE Moss!Running(mossProc)
      BY <1>4, <2>1 DEF Moss!SendCancel, Moss!OneMossProcess
    <2> QED
      BY <1>0, <1>4, <2>1 DEF Moss!SendCancel
  <1>5. CASE Moss!TakeEvent(c)
    <2>1. CASE UNCHANGED <<mossCall, table>>
      BY <1>5, <2>1 DEF Moss!TakeEvent, Moss!OneMossProcess
    <2>2. CASE Moss!Over(c)
      BY <1>5, <2>2, MossLeaves DEF Moss!TakeEvent, Moss!Over, Moss!Forget
    <2> QED
      BY <1>0, <1>5, <2>1, <2>2 DEF Moss!TakeEvent
  <1>6. CASE Moss!RequestTimesOut(c)
    BY <1>0, <1>6 DEF Moss!RequestTimesOut
  <1>7. CASE Moss!Shutdown(c)
    BY <1>7, MossStops DEF Moss!Shutdown, Moss!Goes
  <1>8. CASE Moss!Preload(c)
    <2>1. CASE Moss!Running(mossProc)
      BY <1>8, <2>1, MossLeaves DEF Moss!Preload, Moss!OneMossProcess
    <2>2. CASE ~Moss!Running(mossProc)
      <3>1. /\ mossGen' = mossGen + 1 /\ mossProc' = mossGen' /\ mossAlive' = {mossGen'}
            /\ table' = {} /\ Moss!Goes(c, "starting")
        BY <1>8, <2>2, MossNoneRuns DEF Moss!Preload
      <3> QED
        BY <3>1 DEF Moss!OneMossProcess, Moss!Goes
    <2> QED
      BY <2>1, <2>2
  <1>9. CASE Moss!Started(c)
    <2>1. c \notin table /\ UNCHANGED <<mossProc, mossAlive, mossGen, table>>
      BY <1>9 DEF Moss!Started, Moss!OneMossProcess
    <2>2. Moss!Goes(c, "register") \/ Moss!Goes(c, "over")
      BY <1>9 DEF Moss!Started
    <2> QED
      BY <2>1, <2>2, MossLeaves
  <1>10. CASE Moss!StartTimesOut(c)
    BY <1>10, MossStops DEF Moss!StartTimesOut, Moss!Goes
  <1> QED
    BY <1>1, <1>2, <1>3, <1>4, <1>5, <1>6, <1>7, <1>8, <1>9, <1>10

\* Every step keeps the invariant.
LEMMA MossNextIInv == ASSUME MossIInv, [Moss!Next]_(Moss!mossVars) PROVE MossIInv'
  <1>1. CASE UNCHANGED Moss!mossVars
    BY <1>1 DEF Moss!mossVars, MossIInv, MossTypeOK, Moss!OneMossProcess
  <1>2. CASE Moss!Unload
    BY <1>2, MossStops DEF Moss!Unload, MossIInv, MossTypeOK
  <1>3. ASSUME NEW g \in 1 .. MaxMoss,
               \/ Moss!ReadLine(g) \/ Moss!ReadEof(g) \/ Moss!WorkerReady(g)
               \/ Moss!WorkerAnswers(g) \/ Moss!WorkerDies(g)
        PROVE  MossIInv'
    <2>1. mossAlive' \subseteq mossAlive /\ UNCHANGED <<mossProc, table, mossCall, mossGen>>
      BY <1>3 DEF Moss!ReadLine, Moss!ReadEof, Moss!WorkerReady, Moss!WorkerAnswers, Moss!WorkerDies
    <2> QED
      BY <2>1 DEF MossIInv, MossTypeOK, Moss!OneMossProcess
  <1> QED
    BY <1>1, <1>2, <1>3, MossCallerIInv DEF Moss!Next

\* No MOSS process runs that the backend has forgotten, and no caller leaves its queue
\* behind, for any number of callers, of processes and of respawns that overlap.
THEOREM MossSafe == Spec => []OneMossProcess
  <1>1. Init => MossIInv
    BY DEF Init, Moss!Init, MossIInv, MossTypeOK, Moss!OneMossProcess
  <1>2. MossIInv /\ [Next]_vars => MossIInv'
    <2>1. [Next]_vars => Moss!Next \/ UNCHANGED mossState
      BY DEF Next, vars
    <2>2. UNCHANGED mossState => UNCHANGED Moss!mossVars
      BY DEF Moss!mossVars, mossState
    <2> QED
      BY <2>1, <2>2, MossNextIInv
  <1>3. MossIInv => OneMossProcess
    BY DEF MossIInv, OneMossProcess
  <1> QED
    BY <1>1, <1>2, <1>3, PTL DEF Spec

(***************************************************************************)
(* CtxPool                                                                 *)
(***************************************************************************)
PoolCalls   == [pc : {"idle", "waiting", "running"}, slot : Pool!Slot \cup {0}]
PoolBuilder == {"idle", "building", "rebuilding", "falling back", "unloading"}

PoolTypeOK ==
    /\ kind \in {"kokoro", "matcha"}
    /\ slots \in Seq(Pool!Slot) /\ ctxPool \in Seq(Pool!Slot)
    /\ memory \in [Pool!Slot -> {"unborn", "none", "clean", "dirty"}]
    /\ request \in [Caller -> PoolCalls]
    /\ \A r \in Caller : request[r].pc = "running" => request[r].slot \in Pool!Slot
    /\ builder \in PoolBuilder /\ poolReady \in BOOLEAN /\ careless \in BOOLEAN

\* The slots that were made, and are not those still to be made.
PoolBorn == {s \in Pool!Slot : memory[s] # "unborn"}

PoolIsBorn ==
    /\ Pool!InPool \subseteq PoolBorn /\ Pool!Held \subseteq PoolBorn
    /\ Pool!Range(slots) \subseteq PoolBorn /\ destroyed \subseteq PoolBorn

PoolIsFresh == destroyed \cap Pool!Range(slots) = {}

\* Where nothing was done beside a call or over slots that are still there, the
\* slots are in the pool or held, but for the moments between draining and
\* destroying, when none is; and no other slot has memory.
PoolIsKept ==
    ~careless =>
        /\ builder \in {"idle", "building", "rebuilding"} =>
              Pool!InPool \cup Pool!Held = Pool!Range(slots)
        /\ builder \in {"falling back", "unloading"} => Pool!InPool = {} /\ Pool!Held = {}
        /\ \A s \in Pool!Slot : s \notin Pool!Range(slots) => memory[s] \in {"unborn", "none"}
        /\ poolReady => Len(slots) = K /\ (K = 0 \/ builder \in {"idle", "unloading"})

PoolIInv == PoolTypeOK /\ PoolIsBorn /\ PoolIsFresh /\ PoolIsKept /\ Pool!SlotsAreExclusive

\* The elements of an empty sequence, of one with an element more, of one without its head.
LEMMA PoolEmpty ==
  Pool!Range(<<>>) = {} /\ Pool!IsInjective(<<>>) /\ \A S : <<>> \in Seq(S)
  BY DEF Pool!Range, Pool!IsInjective

LEMMA PoolNoElement ==
  ASSUME NEW S, NEW s \in Seq(S), Pool!Range(s) = {}
  PROVE  s = <<>>
  <1> SUFFICES ASSUME s # <<>> PROVE FALSE
    OBVIOUS
  <1>1. 1 \in DOMAIN s
    OBVIOUS
  <1> QED
    BY <1>1 DEF Pool!Range

LEMMA PoolAppend ==
  ASSUME NEW S, NEW s \in Seq(S), NEW e \in S
  PROVE  /\ Append(s, e) \in Seq(S) /\ Append(s, e) # <<>>
         /\ Pool!Range(Append(s, e)) = Pool!Range(s) \cup {e}
         /\ Pool!IsInjective(s) /\ e \notin Pool!Range(s) => Pool!IsInjective(Append(s, e))
  <1>1. /\ Append(s, e) \in Seq(S) /\ Len(Append(s, e)) = Len(s) + 1 /\ Len(s) \in Nat
        /\ \A i \in 1 .. Len(s) : Append(s, e)[i] = s[i]
        /\ Append(s, e)[Len(s) + 1] = e
    OBVIOUS
  <1>2. DOMAIN s = 1 .. Len(s) /\ DOMAIN Append(s, e) = 1 .. Len(s) + 1
    BY <1>1
  <1>3. Pool!Range(Append(s, e)) = Pool!Range(s) \cup {e}
    <2>1. Pool!Range(Append(s, e)) \subseteq Pool!Range(s) \cup {e}
      BY <1>1, <1>2 DEF Pool!Range
    <2>2. ASSUME NEW x \in Pool!Range(s) PROVE x \in Pool!Range(Append(s, e))
      <3>1. PICK i \in 1 .. Len(s) : x = s[i]
        BY <1>2 DEF Pool!Range
      <3>2. i \in 1 .. Len(s) + 1 /\ x = Append(s, e)[i]
        BY <1>1, <3>1
      <3> QED
        BY <1>2, <3>2 DEF Pool!Range
    <2>3. e \in Pool!Range(Append(s, e))
      <3>1. Len(s) + 1 \in 1 .. Len(s) + 1
        BY <1>1
      <3> QED
        BY <1>1, <1>2, <3>1 DEF Pool!Range
    <2> QED
      BY <2>1, <2>2, <2>3
  <1>4. ASSUME Pool!IsInjective(s), e \notin Pool!Range(s)
        PROVE  Pool!IsInjective(Append(s, e))
    <2>1. \A i, j \in 1 .. Len(s) : s[i] = s[j] => i = j
      BY <1>2, <1>4 DEF Pool!IsInjective
    <2>2. \A i \in 1 .. Len(s) : s[i] # e
      BY <1>2, <1>4 DEF Pool!Range
    <2>3. \A i, j \in 1 .. Len(s) + 1 : Append(s, e)[i] = Append(s, e)[j] => i = j
      BY <1>1, <2>1, <2>2
    <2> QED
      BY <1>2, <2>3 DEF Pool!IsInjective
  <1> QED
    BY <1>1, <1>3, <1>4

LEMMA PoolTail ==
  ASSUME NEW S, NEW s \in Seq(S), s # <<>>
  PROVE  /\ Tail(s) \in Seq(S) /\ Head(s) \in S
         /\ Pool!Range(s) = Pool!Range(Tail(s)) \cup {Head(s)}
         /\ Pool!IsInjective(s) =>
               Pool!IsInjective(Tail(s)) /\ Head(s) \notin Pool!Range(Tail(s))
  <1>1. /\ Tail(s) \in Seq(S) /\ Head(s) \in S /\ Head(s) = s[1]
        /\ Len(s) \in Nat /\ Len(s) > 0 /\ Len(Tail(s)) = Len(s) - 1
        /\ \A i \in 1 .. Len(s) - 1 : Tail(s)[i] = s[i + 1]
    OBVIOUS
  <1>2. DOMAIN s = 1 .. Len(s) /\ DOMAIN Tail(s) = 1 .. Len(s) - 1
    BY <1>1
  <1>3. Pool!Range(s) = Pool!Range(Tail(s)) \cup {Head(s)}
    <2>1. ASSUME NEW i \in 1 .. Len(s) PROVE s[i] \in Pool!Range(Tail(s)) \cup {Head(s)}
      <3>1. CASE i = 1
        BY <1>1, <3>1
      <3>2. CASE i # 1
        <4>1. i - 1 \in 1 .. Len(s) - 1 /\ Tail(s)[i - 1] = s[i]
          BY <1>1, <3>2
        <4> QED
          BY <1>2, <4>1 DEF Pool!Range
      <3> QED
        BY <3>1, <3>2
    <2>2. ASSUME NEW i \in 1 .. Len(s) - 1 PROVE Tail(s)[i] \in Pool!Range(s)
      <3>1. i + 1 \in 1 .. Len(s) /\ Tail(s)[i] = s[i + 1]
        BY <1>1
      <3> QED
        BY <1>2, <3>1 DEF Pool!Range
    <2>3. Head(s) \in Pool!Range(s)
      <3>1. 1 \in 1 .. Len(s)
        BY <1>1
      <3> QED
        BY <1>1, <1>2, <3>1 DEF Pool!Range
    <2> QED
      BY <1>2, <2>1, <2>2, <2>3 DEF Pool!Range
  <1>4. ASSUME Pool!IsInjective(s)
        PROVE  Pool!IsInjective(Tail(s)) /\ Head(s) \notin Pool!Range(Tail(s))
    <2>1. \A i, j \in 1 .. Len(s) : s[i] = s[j] => i = j
      BY <1>2, <1>4 DEF Pool!IsInjective
    <2>2. \A i, j \in 1 .. Len(s) - 1 : Tail(s)[i] = Tail(s)[j] => i = j
      BY <1>1, <2>1
    <2>3. \A i \in 1 .. Len(s) - 1 : Tail(s)[i] # s[1]
      BY <1>1, <2>1
    <2> QED
      BY <1>1, <1>2, <2>2, <2>3 DEF Pool!IsInjective, Pool!Range
  <1> QED
    BY <1>1, <1>3, <1>4

LEMMA PoolInitIInv == ASSUME Pool!Init PROVE PoolIInv
  <1>1. PoolTypeOK
    <2>1. slots \in Seq(Pool!Slot) /\ ctxPool \in Seq(Pool!Slot)
      BY DEF Pool!Init
    <2>2. request \in [Caller -> PoolCalls]
      BY DEF Pool!Init, Pool!Outside, PoolCalls
    <2>3. \A r \in Caller : request[r].pc # "running"
      BY DEF Pool!Init, Pool!Outside
    <2> QED
      BY <2>1, <2>2, <2>3 DEF Pool!Init, PoolTypeOK, PoolBuilder
  <1>2. Pool!InPool = {} /\ Pool!Held = {} /\ Pool!Range(slots) = {} /\ Pool!IsInjective(ctxPool)
    BY PoolEmpty DEF Pool!Init, Pool!InPool, Pool!Held, Pool!Outside
  <1>3. /\ destroyed = {} /\ \A s \in Pool!Slot : memory[s] = "unborn"
        /\ builder = "idle" /\ ~poolReady /\ \A r \in Caller : request[r].pc = "idle"
    BY DEF Pool!Init, Pool!Outside
  <1> QED
    BY <1>1, <1>2, <1>3
       DEF PoolIInv, PoolIsBorn, PoolIsFresh, PoolIsKept, Pool!SlotsAreExclusive

\* A step that keeps the slots, the pool and the calls, and no memory but of the slots.
LEMMA PoolQuiet ==
  ASSUME PoolIInv, PoolTypeOK', UNCHANGED <<slots, ctxPool, memory, destroyed, request>>,
         PoolIsKept'
  PROVE  PoolIInv'
  BY DEF PoolIInv, PoolIsBorn, PoolBorn, PoolIsFresh, Pool!InPool, Pool!Held,
         Pool!SlotsAreExclusive

\* A call takes a slot, uses its memory and puts it back.
LEMMA PoolCallIInv ==
  ASSUME PoolIInv, NEW r \in Caller,
         Pool!Begin(r) \/ Pool!GetSlot(r) \/ Pool!Allocate(r) \/ Pool!Finish(r)
  PROVE  PoolIInv'
  <1>0. /\ PoolTypeOK /\ PoolIsBorn /\ PoolIsFresh /\ PoolIsKept /\ Pool!SlotsAreExclusive
    BY DEF PoolIInv
  <1>1. CASE Pool!Begin(r)
    <2>1. /\ request' = [request EXCEPT ![r].pc = "waiting"] /\ request[r].pc = "idle"
          /\ UNCHANGED <<kind, slots, ctxPool, memory, destroyed, builder, poolReady, careless>>
      BY <1>1 DEF Pool!Begin
    <2>2. PoolTypeOK'
      BY <1>0, <2>1 DEF PoolTypeOK, PoolCalls, Pool!Slot
    <2>3. \A q \in Caller : /\ (request'[q].pc = "running") <=> (request[q].pc = "running")
                            /\ request'[q].slot = request[q].slot
      BY <1>0, <2>1 DEF PoolTypeOK
    <2>4. Pool!Held' = Pool!Held
      BY <2>3 DEF Pool!Held
    <2>5. Pool!SlotsAreExclusive'
      BY <1>0, <2>1, <2>3 DEF Pool!SlotsAreExclusive, Pool!InPool
    <2>6. PoolIsBorn' /\ PoolIsFresh' /\ PoolIsKept'
      BY <1>0, <2>1, <2>4
         DEF PoolIsBorn, PoolBorn, PoolIsFresh, PoolIsKept, Pool!InPool
    <2> QED
      BY <2>2, <2>5, <2>6 DEF PoolIInv
  <1>2. CASE Pool!GetSlot(r)
    <2> DEFINE e == Head(ctxPool)
    <2>1. /\ request' = [request EXCEPT ![r] = [pc |-> "running", slot |-> e]]
          /\ request[r].pc = "waiting" /\ ctxPool # <<>> /\ ctxPool' = Tail(ctxPool)
          /\ UNCHANGED <<kind, slots, memory, destroyed, builder, poolReady, careless>>
      BY <1>2 DEF Pool!GetSlot
    <2>2. ctxPool \in Seq(Pool!Slot)
      BY <1>0 DEF PoolTypeOK
    <2>3. /\ ctxPool' \in Seq(Pool!Slot) /\ e \in Pool!Slot
          /\ Pool!InPool = Pool!InPool' \cup {e}
          /\ Pool!IsInjective(ctxPool') /\ e \notin Pool!InPool'
      <3>1. Pool!IsInjective(ctxPool)
        BY <1>0 DEF Pool!SlotsAreExclusive
      <3>2. /\ Tail(ctxPool) \in Seq(Pool!Slot) /\ Head(ctxPool) \in Pool!Slot
            /\ Pool!Range(ctxPool) = Pool!Range(Tail(ctxPool)) \cup {Head(ctxPool)}
            /\ Pool!IsInjective(Tail(ctxPool)) /\ Head(ctxPool) \notin Pool!Range(Tail(ctxPool))
        BY <2>1, <2>2, <3>1, PoolTail
      <3> QED
        BY <2>1, <3>2 DEF Pool!InPool
    <2> HIDE DEF e
    <2>4. /\ request'[r] = [pc |-> "running", slot |-> e]
          /\ \A q \in Caller : q # r => request'[q] = request[q]
      BY <1>0, <2>1 DEF PoolTypeOK
    <2>5. PoolTypeOK'
      <3>1. request' \in [Caller -> PoolCalls]
        <4>1. [pc |-> "running", slot |-> e] \in
                 PoolCalls
          BY <2>3 DEF PoolCalls
        <4>2. request \in [Caller -> PoolCalls]
          BY <1>0 DEF PoolTypeOK
        <4> QED
          BY <2>1, <4>1, <4>2
      <3>2. \A q \in Caller : request'[q].pc = "running" => request'[q].slot \in Pool!Slot
        BY <1>0, <2>3, <2>4 DEF PoolTypeOK
      <3>3. /\ slots' = slots /\ memory' = memory /\ kind' = kind /\ builder' = builder
            /\ poolReady' = poolReady /\ careless' = careless
        BY <2>1
      <3> QED
        BY <1>0, <2>3, <3>1, <3>2, <3>3 DEF PoolTypeOK, Pool!Slot
    <2>6. Pool!Held' = Pool!Held \cup {e}
      BY <2>1, <2>4 DEF Pool!Held
    <2>7. Pool!SlotsAreExclusive'
      BY <1>0, <2>3, <2>4 DEF Pool!SlotsAreExclusive
    <2>8. PoolIsBorn' /\ PoolIsFresh'
      BY <1>0, <2>1, <2>3, <2>6 DEF PoolIsBorn, PoolBorn, PoolIsFresh
    <2>9. PoolIsKept'
      BY <1>0, <2>1, <2>3, <2>6 DEF PoolIsKept
    <2> QED
      BY <2>5, <2>7, <2>8, <2>9 DEF PoolIInv
  <1>3. CASE Pool!Allocate(r)
    <2>1. /\ request[r].pc = "running" /\ request[r].slot \in Pool!Slot
          /\ memory' = [memory EXCEPT ![request[r].slot] = "dirty"]
          /\ UNCHANGED <<kind, slots, ctxPool, destroyed, request, builder, poolReady, careless>>
      BY <1>0, <1>3 DEF Pool!Allocate, Pool!OnEngines, Pool!Allocated, PoolTypeOK
    <2>2. /\ PoolTypeOK' /\ PoolBorn \subseteq PoolBorn'
          /\ \A s \in Pool!Slot : s # request[r].slot => memory'[s] = memory[s]
      BY <1>0, <2>1 DEF PoolTypeOK, PoolBorn, Pool!Slot
    <2>3. request[r].slot \in Pool!Held
      BY <2>1 DEF Pool!Held
    <2>4. Pool!InPool' = Pool!InPool /\ Pool!Held' = Pool!Held
      BY <2>1 DEF Pool!InPool, Pool!Held
    <2>5. ~careless => request[r].slot \in Pool!Range(slots)
      BY <1>0, <2>3 DEF PoolIsKept, PoolTypeOK, PoolBuilder
    <2> QED
      BY <1>0, <2>1, <2>2, <2>4, <2>5
         DEF PoolIInv, PoolIsBorn, PoolIsFresh, PoolIsKept, Pool!SlotsAreExclusive
  <1>4. CASE Pool!Finish(r)
    <2> DEFINE e == request[r].slot
    <2>1. /\ request[r].pc = "running" /\ e \in Pool!Slot
          /\ memory' = [memory EXCEPT ![e] = Pool!FreeAll(@)]
          /\ ctxPool' = Append(ctxPool, e)
          /\ request' = [request EXCEPT ![r] = [pc |-> "idle", slot |-> 0]]
          /\ UNCHANGED <<kind, slots, destroyed, builder, poolReady, careless>>
      BY <1>0, <1>4 DEF Pool!Finish, Pool!OnEngines, Pool!Outside, PoolTypeOK
    <2>2. ctxPool \in Seq(Pool!Slot)
      BY <1>0 DEF PoolTypeOK
    <2>3. /\ ctxPool' \in Seq(Pool!Slot) /\ Pool!InPool' = Pool!InPool \cup {e}
          /\ Pool!IsInjective(ctxPool')
      <3>1. Pool!IsInjective(ctxPool) /\ e \notin Pool!Range(ctxPool)
        BY <1>0, <2>1 DEF Pool!SlotsAreExclusive, Pool!InPool
      <3>2. /\ Append(ctxPool, e) \in Seq(Pool!Slot)
            /\ Pool!Range(Append(ctxPool, e)) = Pool!Range(ctxPool) \cup {e}
            /\ Pool!IsInjective(Append(ctxPool, e))
        BY <2>1, <2>2, <3>1, PoolAppend
      <3> QED
        BY <2>1, <3>2 DEF Pool!InPool
    <2>4. /\ request'[r] = [pc |-> "idle", slot |-> 0]
          /\ \A q \in Caller : q # r => request'[q] = request[q]
      BY <1>0, <2>1 DEF PoolTypeOK
    <2>5. /\ \A s \in Pool!Slot : s # e => memory'[s] = memory[s]
          /\ memory'[e] = Pool!FreeAll(memory[e])
      BY <1>0, <2>1 DEF PoolTypeOK
    <2>6. /\ memory' \in [Pool!Slot -> {"unborn", "none", "clean", "dirty"}]
          /\ memory'[e] = "unborn" <=> memory[e] = "unborn"
          /\ memory[e] \in {"unborn", "none"} => memory'[e] = memory[e]
      BY <1>0, <2>1, <2>5 DEF PoolTypeOK, Pool!FreeAll
    <2>7. PoolBorn' = PoolBorn
      BY <2>1, <2>5, <2>6 DEF PoolBorn, Pool!Slot
    <2>8. PoolTypeOK'
      <3>1. request' \in [Caller -> PoolCalls]
        BY <1>0, <2>1 DEF PoolTypeOK, PoolCalls
      <3>2. \A q \in Caller : request'[q].pc = "running" => request'[q].slot \in Pool!Slot
        BY <1>0, <2>4 DEF PoolTypeOK
      <3>3. /\ slots' = slots /\ kind' = kind /\ builder' = builder
            /\ poolReady' = poolReady /\ careless' = careless
        BY <2>1
      <3> QED
        BY <1>0, <2>3, <2>6, <3>1, <3>2, <3>3 DEF PoolTypeOK, Pool!Slot
    <2>9. Pool!Held = Pool!Held' \cup {e}
      BY <2>1, <2>4 DEF Pool!Held
    <2> HIDE DEF e
    <2>10. Pool!SlotsAreExclusive'
      <3>1. \A q \in Caller : request'[q].pc = "running" =>
               request'[q].slot \notin Pool!InPool /\ request'[q].slot # e /\ request'[q] = request[q]
        BY <1>0, <2>1, <2>4 DEF Pool!SlotsAreExclusive, e
      <3> QED
        BY <1>0, <2>3, <3>1 DEF Pool!SlotsAreExclusive
    <2>11. PoolIsBorn' /\ PoolIsFresh'
      BY <1>0, <2>1, <2>3, <2>7, <2>9 DEF PoolIsBorn, PoolIsFresh
    <2>12. PoolIsKept'
      <3>1. Pool!InPool' \cup Pool!Held' = Pool!InPool \cup Pool!Held
        BY <2>3, <2>9
      <3>2. e \in Pool!Held
        BY <2>9
      <3> QED
        BY <1>0, <2>1, <2>5, <2>6, <3>1, <3>2 DEF PoolIsKept, PoolTypeOK, PoolBuilder
    <2> QED
      BY <2>8, <2>10, <2>11, <2>12 DEF PoolIInv
  <1> QED
    BY <1>1, <1>2, <1>3, <1>4

\* The pool is drained for a teardown: without a call under way no slot is held either.
LEMMA PoolDrained ==
  ASSUME PoolIInv, ctxPool' = <<>>, careless' = (careless \/ ~Pool!Idle),
         \/ builder = "building" /\ builder' = "falling back"
         \/ builder = "idle" /\ builder' = "unloading",
         UNCHANGED <<kind, slots, memory, destroyed, request, poolReady>>
  PROVE  PoolIInv'
  <1>1. PoolTypeOK /\ PoolIsBorn /\ PoolIsFresh /\ PoolIsKept /\ Pool!SlotsAreExclusive
    BY DEF PoolIInv
  <1>2. PoolTypeOK'
    <2>1. ctxPool' \in Seq(Pool!Slot)
      BY PoolEmpty
    <2>2. careless' \in BOOLEAN /\ builder' \in PoolBuilder
      BY DEF Pool!Idle, PoolBuilder
    <2> QED
      BY <1>1, <2>1, <2>2 DEF PoolTypeOK, Pool!Slot
  <1>3. Pool!InPool' = {} /\ Pool!IsInjective(ctxPool') /\ Pool!Held' = Pool!Held
    BY PoolEmpty DEF Pool!InPool, Pool!Held
  <1>4. ~careless' => Pool!Held = {} /\ ~careless
    BY <1>1 DEF Pool!Held, Pool!Idle, PoolTypeOK
  <1>5. PoolIsKept'
    BY <1>1, <1>3, <1>4 DEF PoolIsKept
  <1> QED
    BY <1>1, <1>2, <1>3, <1>5
       DEF PoolIInv, PoolIsBorn, PoolBorn, PoolIsFresh, Pool!SlotsAreExclusive

\* The steps of the thread that loads and unloads.
LEMMA PoolBuilds ==
  ASSUME PoolIInv, Pool!Preload \/ Pool!BuildFails \/ Pool!WarmedUp \/ Pool!WarmupFails
  PROVE  PoolIInv'
  <1>0. /\ PoolTypeOK /\ PoolIsBorn /\ PoolIsFresh /\ PoolIsKept /\ Pool!SlotsAreExclusive
    BY DEF PoolIInv
  <1>1. CASE Pool!Preload
    <2>1. /\ builder = "idle" /\ builder' = "building" /\ slots' = <<>>
          /\ ctxPool' = IF kind = "kokoro" THEN <<>> ELSE ctxPool
          /\ careless' = (careless \/ slots # <<>>)
          /\ UNCHANGED <<kind, memory, destroyed, request, poolReady>>
      BY <1>1 DEF Pool!Preload, Pool!StartBuild
    <2>2. Pool!Held' = Pool!Held /\ PoolBorn' = PoolBorn /\ Pool!Range(slots') = {}
      BY <2>1, PoolEmpty DEF Pool!Held, PoolBorn, Pool!Slot
    <2>3. Pool!InPool' \subseteq Pool!InPool /\ Pool!IsInjective(ctxPool')
      BY <1>0, <2>1, PoolEmpty DEF Pool!InPool, Pool!SlotsAreExclusive
    <2>4. PoolTypeOK'
      <3>1. slots' \in Seq(Pool!Slot) /\ ctxPool' \in Seq(Pool!Slot)
        BY <1>0, <2>1 DEF PoolTypeOK
      <3> QED
        BY <1>0, <2>1, <3>1 DEF PoolTypeOK, PoolBuilder, Pool!Slot
    <2>5. ~careless' => slots = <<>> /\ Pool!InPool = {} /\ Pool!Held = {}
      BY <1>0, <2>1, PoolEmpty DEF PoolIsKept, PoolTypeOK
    <2>6. PoolIsKept'
      BY <1>0, <2>1, <2>2, <2>3, <2>5 DEF PoolIsKept, PoolTypeOK
    <2> QED
      BY <1>0, <2>1, <2>2, <2>3, <2>4, <2>6
         DEF PoolIInv, PoolIsBorn, PoolIsFresh, Pool!SlotsAreExclusive
  <1>2. CASE Pool!BuildFails
    <2>1. /\ builder \in {"building", "rebuilding"} /\ builder' = "idle"
          /\ UNCHANGED <<kind, slots, ctxPool, memory, destroyed, request, poolReady, careless>>
      BY <1>2 DEF Pool!BuildFails
    <2>2. PoolTypeOK'
      BY <1>0, <2>1 DEF PoolTypeOK, PoolBuilder, Pool!Slot
    <2>3. PoolIsKept'
      BY <1>0, <2>1 DEF PoolIsKept, Pool!InPool, Pool!Held
    <2> QED
      BY <2>1, <2>2, <2>3, PoolQuiet
  <1>3. CASE Pool!WarmedUp
    <2>1. /\ builder \in {"building", "rebuilding"} /\ builder' = "idle" /\ Len(slots) = K
          /\ poolReady' = TRUE
          /\ UNCHANGED <<kind, slots, ctxPool, memory, destroyed, request, careless>>
      BY <1>3 DEF Pool!WarmedUp
    <2>2. PoolTypeOK'
      BY <1>0, <2>1 DEF PoolTypeOK, PoolBuilder, Pool!Slot
    <2>3. PoolIsKept'
      BY <1>0, <2>1 DEF PoolIsKept, Pool!InPool, Pool!Held
    <2> QED
      BY <2>1, <2>2, <2>3, PoolQuiet
  <1>4. CASE Pool!WarmupFails
    <2>1. CASE builder' = "idle" /\ UNCHANGED <<ctxPool, careless>>
      <3>1. /\ builder = "building" /\ UNCHANGED <<kind, slots, memory, destroyed, request, poolReady>>
        BY <1>4 DEF Pool!WarmupFails
      <3>2. PoolTypeOK'
        BY <1>0, <2>1, <3>1 DEF PoolTypeOK, PoolBuilder, Pool!Slot
      <3>3. PoolIsKept'
        BY <1>0, <2>1, <3>1 DEF PoolIsKept, Pool!InPool, Pool!Held
      <3> QED
        BY <2>1, <3>1, <3>2, <3>3, PoolQuiet
    <2>2. CASE /\ builder' = "falling back" /\ Pool!Drained
               /\ careless' = (careless \/ ~Pool!Idle)
      <3>1. /\ builder = "building" /\ ctxPool' = <<>>
            /\ UNCHANGED <<kind, slots, memory, destroyed, request, poolReady>>
        BY <1>4, <2>2 DEF Pool!WarmupFails, Pool!Drained
      <3> QED
        BY <1>0, <2>2, <3>1, PoolDrained
    <2> QED
      BY <1>4, <2>1, <2>2 DEF Pool!WarmupFails
  <1> QED
    BY <1>1, <1>2, <1>3, <1>4

\* What is destroyed has no memory left and is no slot any more.
LEMMA PoolDestroys ==
  ASSUME PoolIInv, Pool!Destroyed, slots' = <<>>,
         UNCHANGED <<kind, request>>, builder' \in {"rebuilding", "idle"}
  PROVE  /\ memory' \in [Pool!Slot -> {"unborn", "none", "clean", "dirty"}]
         /\ PoolBorn' = PoolBorn /\ destroyed' \subseteq PoolBorn
         /\ slots' \in Seq(Pool!Slot) /\ Pool!Range(slots') = {} /\ Len(slots') = 0
         /\ Pool!Held' = Pool!Held
         /\ ~careless => \A s \in Pool!Slot : memory'[s] \in {"unborn", "none"}
  <1>1. PoolTypeOK /\ PoolIsBorn /\ PoolIsKept
    BY DEF PoolIInv
  <1>2. \A s \in Pool!Slot :
           memory'[s] = IF s \in Pool!Range(slots) THEN "none" ELSE memory[s]
    BY DEF Pool!Destroyed, Pool!Dropped
  <1>3. memory' \in [Pool!Slot -> {"unborn", "none", "clean", "dirty"}]
    BY <1>1 DEF PoolTypeOK, Pool!Destroyed, Pool!Dropped
  <1>4. PoolBorn' = PoolBorn
    BY <1>1, <1>2 DEF PoolBorn, PoolIsBorn, Pool!Slot
  <1>5. destroyed' \subseteq PoolBorn
    BY <1>1 DEF PoolIsBorn, Pool!Destroyed
  <1>6. slots' \in Seq(Pool!Slot) /\ Pool!Range(slots') = {} /\ Len(slots') = 0
    BY PoolEmpty
  <1>7. ~careless => \A s \in Pool!Slot : memory'[s] \in {"unborn", "none"}
    BY <1>1, <1>2 DEF PoolIsKept
  <1>8. Pool!Held' = Pool!Held
    BY DEF Pool!Held
  <1> QED
    BY <1>3, <1>4, <1>5, <1>6, <1>7, <1>8

\* A slot is added, or all are destroyed.
LEMMA PoolAddsOrDestroys ==
  ASSUME PoolIInv, K \in Nat,
         Pool!AddSlot \/ Pool!FallBack \/ Pool!Unload \/ Pool!DestroySlots
  PROVE  PoolIInv'
  <1>0. /\ PoolTypeOK /\ PoolIsBorn /\ PoolIsFresh /\ PoolIsKept /\ Pool!SlotsAreExclusive
    BY DEF PoolIInv
  <1>1. CASE Pool!AddSlot
    <2>1. /\ builder \in {"building", "rebuilding"} /\ Len(slots) < K
          /\ UNCHANGED <<kind, destroyed, request, builder, poolReady, careless>>
      BY <1>1 DEF Pool!AddSlot
    <2>2. PICK s \in Pool!Slot :
             /\ memory[s] = "unborn" /\ memory' = [memory EXCEPT ![s] = "none"]
             /\ slots' = Append(slots, s) /\ ctxPool' = Append(ctxPool, s)
      BY <1>1 DEF Pool!AddSlot
    <2>3. slots \in Seq(Pool!Slot) /\ ctxPool \in Seq(Pool!Slot)
      BY <1>0 DEF PoolTypeOK
    <2>4. s \notin Pool!InPool /\ s \notin Pool!Held /\ s \notin destroyed
      BY <1>0, <2>2 DEF PoolIsBorn, PoolBorn
    <2>5. /\ slots' \in Seq(Pool!Slot) /\ ctxPool' \in Seq(Pool!Slot)
          /\ Pool!Range(slots') = Pool!Range(slots) \cup {s}
          /\ Pool!InPool' = Pool!InPool \cup {s} /\ Pool!IsInjective(ctxPool')
      <3>1. Pool!IsInjective(ctxPool) /\ s \notin Pool!Range(ctxPool)
        BY <1>0, <2>4 DEF Pool!SlotsAreExclusive, Pool!InPool
      <3>2. /\ Append(ctxPool, s) \in Seq(Pool!Slot) /\ Append(slots, s) \in Seq(Pool!Slot)
            /\ Pool!Range(Append(ctxPool, s)) = Pool!Range(ctxPool) \cup {s}
            /\ Pool!Range(Append(slots, s)) = Pool!Range(slots) \cup {s}
            /\ Pool!IsInjective(Append(ctxPool, s))
        BY <2>3, <3>1, PoolAppend
      <3> QED
        BY <2>2, <3>2 DEF Pool!InPool
    <2>6. /\ memory' \in [Pool!Slot -> {"unborn", "none", "clean", "dirty"}]
          /\ memory'[s] = "none" /\ \A t \in Pool!Slot : t # s => memory'[t] = memory[t]
      BY <1>0, <2>2 DEF PoolTypeOK
    <2>7. PoolBorn' = PoolBorn \cup {s}
      BY <2>2, <2>6 DEF PoolBorn, Pool!Slot
    <2>8. PoolTypeOK'
      BY <1>0, <2>1, <2>5, <2>6 DEF PoolTypeOK, Pool!Slot
    <2>9. Pool!Held' = Pool!Held
      BY <2>1 DEF Pool!Held
    <2>10. Pool!SlotsAreExclusive'
      <3>1. \A r \in Caller : request[r].pc = "running" => request[r].slot # s
        BY <2>4 DEF Pool!Held
      <3> QED
        BY <1>0, <2>1, <2>5, <3>1 DEF Pool!SlotsAreExclusive
    <2>11. PoolIsBorn' /\ PoolIsFresh'
      <3>1. PoolIsBorn'
        BY <1>0, <2>1, <2>5, <2>7, <2>9 DEF PoolIsBorn
      <3>2. PoolIsFresh'
        BY <1>0, <2>1, <2>4, <2>5 DEF PoolIsFresh
      <3> QED
        BY <3>1, <3>2
    <2>12. ~careless => ~poolReady
      <3>1. Len(slots) # K
        BY <2>1, <2>3
      <3> QED
        BY <1>0, <3>1 DEF PoolIsKept
    <2>13. PoolIsKept'
      BY <1>0, <2>1, <2>5, <2>6, <2>9, <2>12 DEF PoolIsKept
    <2> QED
      BY <2>8, <2>10, <2>11, <2>13 DEF PoolIInv
  <1>2. CASE Pool!FallBack
    <2>1. /\ builder = "falling back" /\ builder' = "rebuilding" /\ Pool!Destroyed
          /\ slots' = <<>> /\ ctxPool' = IF kind = "kokoro" THEN <<>> ELSE ctxPool
          /\ UNCHANGED <<kind, request, poolReady, careless>>
      BY <1>2 DEF Pool!FallBack, Pool!StartBuild
    <2>2. /\ memory' \in [Pool!Slot -> {"unborn", "none", "clean", "dirty"}]
          /\ PoolBorn' = PoolBorn /\ destroyed' \subseteq PoolBorn
          /\ slots' \in Seq(Pool!Slot) /\ Pool!Range(slots') = {} /\ Len(slots') = 0
          /\ Pool!Held' = Pool!Held
          /\ ~careless => \A s \in Pool!Slot : memory'[s] \in {"unborn", "none"}
      BY <2>1, PoolDestroys
    <2>3. /\ ctxPool' \in Seq(Pool!Slot)
          /\ Pool!InPool' \subseteq Pool!InPool /\ Pool!IsInjective(ctxPool')
      <3>1. CASE ctxPool' = <<>>
        BY <3>1, PoolEmpty DEF Pool!InPool
      <3>2. CASE ctxPool' = ctxPool
        BY <1>0, <3>2 DEF PoolTypeOK, Pool!InPool, Pool!SlotsAreExclusive
      <3> QED
        BY <2>1, <3>1, <3>2
    <2>4. PoolTypeOK'
      BY <1>0, <2>1, <2>2, <2>3 DEF PoolTypeOK, PoolBuilder, Pool!Slot
    <2>5. ~careless => ~poolReady \/ K = 0
      BY <1>0, <2>1 DEF PoolIsKept
    <2>6. ~careless => Pool!InPool = {} /\ Pool!Held = {}
      BY <1>0, <2>1 DEF PoolIsKept
    <2>7. PoolIsKept'
      BY <1>0, <2>1, <2>2, <2>3, <2>5, <2>6 DEF PoolIsKept
    <2> QED
      BY <1>0, <2>1, <2>2, <2>3, <2>4, <2>7
         DEF PoolIInv, PoolIsBorn, PoolIsFresh, Pool!SlotsAreExclusive
  <1>3. CASE Pool!Unload
    BY <1>3, PoolDrained DEF Pool!Unload, Pool!Drained
  <1>4. CASE Pool!DestroySlots
    <2>1. /\ builder = "unloading" /\ builder' = "idle" /\ Pool!Destroyed
          /\ slots' = <<>> /\ poolReady' = FALSE /\ careless' = (careless \/ ~Pool!Idle)
          /\ UNCHANGED <<kind, ctxPool, request>>
      BY <1>4 DEF Pool!DestroySlots
    <2>2. /\ memory' \in [Pool!Slot -> {"unborn", "none", "clean", "dirty"}]
          /\ PoolBorn' = PoolBorn /\ destroyed' \subseteq PoolBorn
          /\ slots' \in Seq(Pool!Slot) /\ Pool!Range(slots') = {} /\ Len(slots') = 0
          /\ Pool!Held' = Pool!Held
          /\ ~careless => \A s \in Pool!Slot : memory'[s] \in {"unborn", "none"}
      BY <2>1, PoolDestroys
    <2>3. Pool!InPool' = Pool!InPool
      BY <2>1 DEF Pool!InPool
    <2>4. PoolTypeOK'
      <3>1. careless' \in BOOLEAN /\ builder' \in PoolBuilder /\ poolReady' \in BOOLEAN
        BY <2>1 DEF Pool!Idle, PoolBuilder
      <3>2. ctxPool' \in Seq(Pool!Slot)
        BY <1>0, <2>1 DEF PoolTypeOK
      <3> QED
        BY <1>0, <2>1, <2>2, <3>1, <3>2 DEF PoolTypeOK, Pool!Slot
    <2>5. PoolIsKept'
      BY <1>0, <2>1, <2>2, <2>3 DEF PoolIsKept
    <2> QED
      BY <1>0, <2>1, <2>2, <2>3, <2>4, <2>5
         DEF PoolIInv, PoolIsBorn, PoolIsFresh, Pool!SlotsAreExclusive
  <1> QED
    BY <1>1, <1>2, <1>3, <1>4

\* Every step keeps the invariant.
LEMMA PoolNextIInv == ASSUME K \in Nat, PoolIInv, [Pool!Next]_(Pool!ctxPoolVars) PROVE PoolIInv'
  <1>1. CASE UNCHANGED Pool!ctxPoolVars
    <2>1. UNCHANGED <<kind, slots, ctxPool, memory, destroyed, request, builder, poolReady, careless>>
      BY <1>1 DEF Pool!ctxPoolVars
    <2>2. PoolTypeOK'
      BY <2>1 DEF PoolIInv, PoolTypeOK, Pool!Slot
    <2>3. PoolIsKept'
      BY <2>1 DEF PoolIInv, PoolIsKept, Pool!InPool, Pool!Held
    <2> QED
      BY <2>1, <2>2, <2>3, PoolQuiet
  <1> QED
    BY <1>1, PoolCallIInv, PoolBuilds, PoolAddsOrDestroys DEF Pool!Next

\* Two synthesis calls never share a slot, whatever unload and preload do beside them; and
\* unless something is unloaded beside a call or loaded over slots that are there, a loaded
\* pool is whole and an unloaded one holds no memory: for any number of threads and slots.
THEOREM PoolSafe ==
  ASSUME K \in Nat
  PROVE  Spec => []PoolIsSafe
  <1>1. Init => PoolIInv
    BY PoolInitIInv DEF Init
  <1>2. PoolIInv /\ [Next]_vars => PoolIInv'
    <2>1. [Next]_vars => Pool!Next \/ UNCHANGED poolState
      BY DEF Next, vars
    <2>2. UNCHANGED poolState => UNCHANGED Pool!ctxPoolVars
      BY DEF Pool!ctxPoolVars, poolState
    <2> QED
      BY <2>1, <2>2, PoolNextIInv
  <1>3. PoolIInv => PoolIsSafe
    <2> SUFFICES ASSUME PoolIInv PROVE Pool!SlotsAreExclusive /\ Pool!PoolIsWhole
      BY DEF PoolIsSafe, Pool!PoolIsSafe
    <2>1. slots = <<>> => Pool!Range(slots) = {}
      BY PoolEmpty
    <2> QED
      BY <2>1 DEF PoolIInv, PoolIsFresh, PoolIsKept, Pool!PoolIsWhole
  <1> QED
    BY <1>1, <1>2, <1>3, PTL DEF Spec

(***************************************************************************)
(* ArtifactInstall.  A finished install stays whole, for any number of     *)
(* files and of processes that install one after the other and may be      *)
(* killed.                                                                 *)
(***************************************************************************)
Content == {"absent", "part", "wrong", "right"}
InstallBusy == {"fetch", "copy", "rename", "verify"}
InstallPc == {"idle", "check", "contract", "ok"} \cup InstallBusy

\* What the variables are.
InstallTypeOK ==
    /\ store \in {"hf", "rk"} /\ summed \in BOOLEAN /\ (store = "hf" => summed)
    /\ disk \in [Artifacts!File -> Content] /\ tmp \in [Artifacts!File -> Content]
    /\ install \in [Caller -> [pc : InstallPc, file : Artifacts!File]]

\* One at a time installs.
OneAtATime == \A i, j \in Caller : Artifacts!Installing(i) /\ Artifacts!Installing(j) => i = j

FileWhole(f) == disk[f] = "right" \/ (~summed /\ disk[f] = "wrong")

\* The rename keeps parts of files off the disk of an RK install.
RenamedWhole ==
    store = "rk" =>
        /\ \A f \in Artifacts!File : disk[f] # "part"
        /\ \A i \in Caller : Artifacts!In(i, "rename") => tmp[Artifacts!At(i)] # "part"

\* The files an install has passed are whole, all of them at its end; and it
\* writes only when no install has been reported done.
FilesPassed ==
    \A i \in Caller :
        /\ install[i].pc \in {"check"} \cup InstallBusy =>
              \A f \in Artifacts!File : f < Artifacts!At(i) => FileWhole(f)
        /\ install[i].pc \in {"contract", "ok"} => \A f \in Artifacts!File : FileWhole(f)
        /\ install[i].pc \in InstallBusy => \A j \in Caller : ~Artifacts!In(j, "ok")
        /\ Artifacts!In(i, "rename") => store = "rk"
        /\ install[i].pc = "verify" /\ ~summed => disk[Artifacts!At(i)] # "absent"

\* The inductive invariant.
InstallIInv == InstallTypeOK /\ OneAtATime /\ RenamedWhole /\ FilesPassed

USE DEF Artifacts!File, Content, InstallBusy, InstallPc

\* The invariant holds at the start, whatever files are there.
LEMMA InstallInitIInv == ASSUME NFiles \in Nat \ {0}, Artifacts!Init PROVE InstallIInv
  BY DEF Artifacts!Init, InstallIInv, InstallTypeOK, OneAtATime, Artifacts!Installing,
         RenamedWhole, FilesPassed, FileWhole, Artifacts!In, Artifacts!At, Artifacts!Idle

\* Its parts say that a finished install is whole.
LEMMA InstallIInvWhole == ASSUME InstallIInv PROVE Artifacts!InstallIsWhole
  BY DEF InstallIInv, InstallTypeOK, FilesPassed, Artifacts!InstallIsWhole, FileWhole, Artifacts!In
\* Process i is now at a file and a place, and the others are where they were.
InstallMoved(i, pc, file) ==
    /\ install' \in [Caller -> [pc : InstallPc, file : Artifacts!File]]
    /\ install'[i].pc = pc /\ install'[i].file = file
    /\ \A j \in Caller \ {i} : install'[j].pc = install[j].pc /\ install'[j].file = install[j].file

\* The three ways a process moves.
LEMMA InstallMoves ==
  ASSUME NFiles \in Nat \ {0}, InstallTypeOK, NEW i \in Caller
  PROVE  /\ \A pc \in InstallPc : Artifacts!Goto(i, pc) => InstallMoved(i, pc, Artifacts!At(i))
         /\ Artifacts!Fails(i) => InstallMoved(i, "idle", 1)
         /\ Artifacts!NextFile(i) =>
               \/ Artifacts!At(i) < NFiles /\ InstallMoved(i, "check", Artifacts!At(i) + 1)
               \/ Artifacts!At(i) = NFiles /\ \E pc \in {"contract", "ok"} : InstallMoved(i, pc, 1)
  <1> USE DEF InstallTypeOK, InstallMoved, Artifacts!At
  <1>1. ASSUME NEW pc \in InstallPc, Artifacts!Goto(i, pc) PROVE InstallMoved(i, pc, Artifacts!At(i))
    BY <1>1 DEF Artifacts!Goto
  <1>2. ASSUME Artifacts!Fails(i) PROVE InstallMoved(i, "idle", 1)
    BY <1>2 DEF Artifacts!Fails, Artifacts!Idle
  <1>3. ASSUME Artifacts!NextFile(i), Artifacts!At(i) < NFiles
        PROVE  InstallMoved(i, "check", Artifacts!At(i) + 1)
    BY <1>3 DEF Artifacts!NextFile
  <1>4. ASSUME Artifacts!NextFile(i), ~(Artifacts!At(i) < NFiles)
        PROVE  Artifacts!At(i) = NFiles /\ \E pc \in {"contract", "ok"} : InstallMoved(i, pc, 1)
    <2>1. Artifacts!At(i) = NFiles
      BY <1>4
    <2>2. CASE store = "rk"
      <3>1. InstallMoved(i, "contract", 1)
        BY <1>4, <2>2 DEF Artifacts!NextFile
      <3> QED
        BY <2>1, <3>1
    <2>3. CASE store # "rk"
      <3>1. InstallMoved(i, "ok", 1)
        BY <1>4, <2>3 DEF Artifacts!NextFile
      <3> QED
        BY <2>1, <3>1
    <2> QED
      BY <2>2, <2>3
  <1> QED
    BY <1>1, <1>2, <1>3, <1>4

FileWholeNext(f) == disk'[f] = "right" \/ (~summed /\ disk'[f] = "wrong")

\* What a step must leave behind for the invariant to hold again, when i moves
\* to a place and a file and nobody else installs.
InstallFits(i, pc, file) ==
    /\ store = "rk" => \A f \in Artifacts!File : disk'[f] # "part"
    /\ pc = "rename" => store = "rk" /\ tmp'[file] # "part"
    /\ pc \in {"check"} \cup InstallBusy => \A f \in Artifacts!File : f < file => FileWholeNext(f)
    /\ pc \in {"contract", "ok"} => \A f \in Artifacts!File : FileWholeNext(f)
    /\ pc \in InstallBusy => \A j \in Caller : ~Artifacts!In(j, "ok")
    /\ pc = "verify" /\ ~summed => disk'[file] # "absent"
    /\ (\E j \in Caller : Artifacts!In(j, "ok")) => disk' = disk

\* Such a step keeps the invariant.
LEMMA InstallMoveIInv ==
  ASSUME NFiles \in Nat \ {0}, InstallIInv, NEW i \in Caller,
         NEW pc \in InstallPc, NEW file \in Artifacts!File,
         InstallMoved(i, pc, file), UNCHANGED <<store, summed>>,
         disk' \in [Artifacts!File -> Content], tmp' \in [Artifacts!File -> Content],
         \A j \in Caller : Artifacts!Installing(j) => j = i,
         InstallFits(i, pc, file)
  PROVE  InstallIInv'
  <1> USE DEF InstallIInv, InstallMoved
  <1>1. InstallTypeOK'
    BY DEF InstallTypeOK
  <1>2. OneAtATime'
    BY DEF OneAtATime, Artifacts!Installing
  <1>3. RenamedWhole'
    <2>1. \A j \in Caller : Artifacts!In(j, "rename")' => j = i
      BY DEF Artifacts!Installing, Artifacts!In
    <2> QED
      BY <2>1 DEF RenamedWhole, InstallFits, Artifacts!In, Artifacts!At
  <1>4. FilesPassed'
    <2> SUFFICES ASSUME NEW j \in Caller
                 PROVE  /\ install'[j].pc \in {"check"} \cup InstallBusy =>
                              \A f \in Artifacts!File : f < install'[j].file => FileWholeNext(f)
                        /\ install'[j].pc \in {"contract", "ok"} => \A f \in Artifacts!File : FileWholeNext(f)
                        /\ install'[j].pc \in InstallBusy => \A k \in Caller : install'[k].pc # "ok"
                        /\ install'[j].pc = "rename" => store = "rk"
                        /\ install'[j].pc = "verify" /\ ~summed => disk'[install'[j].file] # "absent"
      BY DEF FilesPassed, FileWhole, FileWholeNext, Artifacts!In, Artifacts!At
    <2>1. CASE j = i
      BY <2>1 DEF InstallFits, Artifacts!In
    <2>2. CASE j # i
      <3>1. install'[j].pc \in {"idle", "ok"} /\ install'[j].pc = install[j].pc
        BY <2>2 DEF Artifacts!Installing, InstallTypeOK
      <3>2. install'[j].pc = "ok" => \A f \in Artifacts!File : FileWholeNext(f)
        <4>1. install[j].pc = "ok" => disk' = disk /\ \A f \in Artifacts!File : FileWhole(f)
          BY DEF InstallFits, FilesPassed, Artifacts!In
        <4> QED
          BY <3>1, <4>1 DEF FileWhole, FileWholeNext
      <3> QED
        BY <3>1, <3>2
    <2> QED
      BY <2>1, <2>2
  <1> QED
    BY <1>1, <1>2, <1>3, <1>4

\* Every step keeps the invariant, as long as installs do not overlap.
LEMMA InstallNextIInv ==
  ASSUME NFiles \in Nat \ {0}, ~Together, InstallIInv,
         [Artifacts!Next]_(Artifacts!artifactVars)
  PROVE  InstallIInv'
  <1>1. ASSUME NEW i \in Caller,
               \/ Artifacts!Start(i) \/ Artifacts!Check(i) \/ Artifacts!FetchFails(i)
               \/ Artifacts!OpenTarget(i) \/ Artifacts!CopyEnds(i)
               \/ Artifacts!CopyFails(i) \/ Artifacts!Rename(i) \/ Artifacts!Verify(i)
               \/ Artifacts!Contract(i) \/ Artifacts!Killed(i)
        PROVE  InstallIInv'
    <2> USE DEF InstallIInv
    <2> Artifacts!At(i) \in Artifacts!File /\ 1 \in Artifacts!File
      BY DEF InstallTypeOK, Artifacts!At
    <2>0. ASSUME Artifacts!Installing(i) PROVE \A j \in Caller : Artifacts!Installing(j) => j = i
      BY <2>0 DEF OneAtATime
    <2>1. CASE Artifacts!Start(i)
      <3>1. InstallMoved(i, "check", 1) /\ UNCHANGED <<store, summed>>
        BY <2>1 DEF Artifacts!Start, InstallTypeOK, InstallMoved
      <3>2. \A j \in Caller : Artifacts!Installing(j) => j = i
        BY <2>1 DEF Artifacts!Start
      <3>3. disk' \in [Artifacts!File -> Content] /\ tmp' \in [Artifacts!File -> Content]
        BY <2>1 DEF Artifacts!Start, InstallTypeOK
      <3>4. InstallFits(i, "check", 1)
        BY <2>1 DEF Artifacts!Start, InstallFits, FilesPassed, RenamedWhole, FileWhole,
                    FileWholeNext, Artifacts!In, Artifacts!At, InstallTypeOK
      <3> QED
        BY <3>1, <3>2, <3>3, <3>4, InstallMoveIInv
    <2>2. CASE Artifacts!Check(i)
      <3>1. CASE ~Artifacts!Present(Artifacts!At(i))
        <4>1. InstallMoved(i, "fetch", Artifacts!At(i)) /\ UNCHANGED <<store, summed>>
          BY <2>2, <3>1, InstallMoves DEF Artifacts!Check
        <4>2. \A j \in Caller : Artifacts!Installing(j) => j = i
          BY <2>2, <3>1, <2>0 DEF Artifacts!Check, Artifacts!In, Artifacts!Installing
        <4>3. disk' \in [Artifacts!File -> Content] /\ tmp' \in [Artifacts!File -> Content]
          BY <2>2, <3>1 DEF Artifacts!Check, InstallTypeOK
        <4>4. InstallFits(i, "fetch", Artifacts!At(i))
          BY <2>2, <3>1 DEF Artifacts!Check, InstallFits, FilesPassed, RenamedWhole, FileWhole,
                            FileWholeNext, Artifacts!In, Artifacts!At, InstallTypeOK,
                            Artifacts!Present, Artifacts!Exists
        <4> QED
          BY <4>1, <4>2, <4>3, <4>4, InstallMoveIInv
      <3>2. CASE Artifacts!Present(Artifacts!At(i)) /\ Artifacts!At(i) < NFiles
        <4>1. InstallMoved(i, "check", Artifacts!At(i) + 1) /\ UNCHANGED <<store, summed>>
          BY <2>2, <3>2, InstallMoves DEF Artifacts!Check
        <4>2. \A j \in Caller : Artifacts!Installing(j) => j = i
          BY <2>2, <3>2, <2>0 DEF Artifacts!Check, Artifacts!In, Artifacts!Installing
        <4>3. disk' \in [Artifacts!File -> Content] /\ tmp' \in [Artifacts!File -> Content]
          BY <2>2, <3>2 DEF Artifacts!Check, InstallTypeOK
        <4>4. InstallFits(i, "check", Artifacts!At(i) + 1)
          BY <2>2, <3>2 DEF Artifacts!Check, InstallFits, FilesPassed, RenamedWhole, FileWhole,
                            FileWholeNext, Artifacts!In, Artifacts!At, InstallTypeOK,
                            Artifacts!Present, Artifacts!Exists
        <4>5. Artifacts!At(i) + 1 \in Artifacts!File
          BY <3>2
        <4> QED
          BY <4>1, <4>2, <4>3, <4>4, <4>5, InstallMoveIInv
      <3>3. CASE Artifacts!Present(Artifacts!At(i)) /\ ~(Artifacts!At(i) < NFiles)
        <4>1. PICK pc \in {"contract", "ok"} : InstallMoved(i, pc, 1)
          BY <2>2, <3>3, InstallMoves DEF Artifacts!Check
        <4>2. UNCHANGED <<store, summed>>
          BY <2>2 DEF Artifacts!Check
        <4>3. \A j \in Caller : Artifacts!Installing(j) => j = i
          BY <2>2, <3>3, <2>0 DEF Artifacts!Check, Artifacts!In, Artifacts!Installing
        <4>4. disk' \in [Artifacts!File -> Content] /\ tmp' \in [Artifacts!File -> Content]
          BY <2>2, <3>3 DEF Artifacts!Check, InstallTypeOK
        <4>5. InstallFits(i, pc, 1)
          BY <2>2, <3>3 DEF Artifacts!Check, InstallFits, FilesPassed, RenamedWhole, FileWhole,
                            FileWholeNext, Artifacts!In, Artifacts!At, InstallTypeOK,
                            Artifacts!Present, Artifacts!Exists
        <4> QED
          BY <4>1, <4>2, <4>3, <4>4, <4>5, InstallMoveIInv
      <3> QED
        BY <3>1, <3>2, <3>3
    <2>3. CASE Artifacts!FetchFails(i)
      <3>1. InstallMoved(i, "idle", 1) /\ UNCHANGED <<store, summed>>
        BY <2>3, InstallMoves DEF Artifacts!FetchFails
      <3>2. \A j \in Caller : Artifacts!Installing(j) => j = i
        BY <2>3, <2>0 DEF Artifacts!FetchFails, Artifacts!In, Artifacts!Installing
      <3>3. disk' \in [Artifacts!File -> Content] /\ tmp' \in [Artifacts!File -> Content]
        BY <2>3 DEF Artifacts!FetchFails, InstallTypeOK
      <3>4. InstallFits(i, "idle", 1)
        BY <2>3 DEF Artifacts!FetchFails, InstallFits, FilesPassed, RenamedWhole, FileWhole,
                    FileWholeNext, Artifacts!In, Artifacts!At, InstallTypeOK
      <3> QED
        BY <3>1, <3>2, <3>3, <3>4, InstallMoveIInv
    <2>4. CASE Artifacts!OpenTarget(i)
      <3>1. InstallMoved(i, "copy", Artifacts!At(i)) /\ UNCHANGED <<store, summed>>
        BY <2>4, InstallMoves DEF Artifacts!OpenTarget
      <3>2. \A j \in Caller : Artifacts!Installing(j) => j = i
        BY <2>4, <2>0 DEF Artifacts!OpenTarget, Artifacts!In, Artifacts!Installing
      <3>3. disk' \in [Artifacts!File -> Content] /\ tmp' \in [Artifacts!File -> Content]
        BY <2>4 DEF Artifacts!OpenTarget, InstallTypeOK
      <3>4. InstallFits(i, "copy", Artifacts!At(i))
        BY <2>4 DEF Artifacts!OpenTarget, InstallFits, FilesPassed, RenamedWhole, FileWhole,
                    FileWholeNext, Artifacts!In, Artifacts!At, InstallTypeOK
      <3> QED
        BY <3>1, <3>2, <3>3, <3>4, InstallMoveIInv
    <2>5. CASE Artifacts!CopyEnds(i)
      <3>1. CASE store = "hf"
        <4>1. InstallMoved(i, "verify", Artifacts!At(i)) /\ UNCHANGED <<store, summed>>
          BY <2>5, <3>1, InstallMoves DEF Artifacts!CopyEnds
        <4>2. \A j \in Caller : Artifacts!Installing(j) => j = i
          BY <2>5, <3>1, <2>0 DEF Artifacts!CopyEnds, Artifacts!In, Artifacts!Installing
        <4>3. disk' \in [Artifacts!File -> Content] /\ tmp' \in [Artifacts!File -> Content]
          BY <2>5, <3>1 DEF Artifacts!CopyEnds, InstallTypeOK
        <4>4. InstallFits(i, "verify", Artifacts!At(i))
          BY <2>5, <3>1 DEF Artifacts!CopyEnds, InstallFits, FilesPassed, RenamedWhole, FileWhole,
                            FileWholeNext, Artifacts!In, Artifacts!At, InstallTypeOK
        <4> QED
          BY <4>1, <4>2, <4>3, <4>4, InstallMoveIInv
      <3>2. CASE store # "hf"
        <4>1. InstallMoved(i, "rename", Artifacts!At(i)) /\ UNCHANGED <<store, summed>>
          BY <2>5, <3>2, InstallMoves DEF Artifacts!CopyEnds
        <4>2. \A j \in Caller : Artifacts!Installing(j) => j = i
          BY <2>5, <3>2, <2>0 DEF Artifacts!CopyEnds, Artifacts!In, Artifacts!Installing
        <4>3. disk' \in [Artifacts!File -> Content] /\ tmp' \in [Artifacts!File -> Content]
          BY <2>5, <3>2 DEF Artifacts!CopyEnds, InstallTypeOK
        <4>4. InstallFits(i, "rename", Artifacts!At(i))
          BY <2>5, <3>2 DEF Artifacts!CopyEnds, InstallFits, FilesPassed, RenamedWhole, FileWhole,
                            FileWholeNext, Artifacts!In, Artifacts!At, InstallTypeOK
        <4> QED
          BY <4>1, <4>2, <4>3, <4>4, InstallMoveIInv
      <3> QED
        BY <3>1, <3>2
    <2>6. CASE Artifacts!CopyFails(i)
      <3>1. InstallMoved(i, "idle", 1) /\ UNCHANGED <<store, summed>>
        BY <2>6, InstallMoves DEF Artifacts!CopyFails
      <3>2. \A j \in Caller : Artifacts!Installing(j) => j = i
        BY <2>6, <2>0 DEF Artifacts!CopyFails, Artifacts!In, Artifacts!Installing
      <3>3. disk' \in [Artifacts!File -> Content] /\ tmp' \in [Artifacts!File -> Content]
        BY <2>6 DEF Artifacts!CopyFails, InstallTypeOK
      <3>4. InstallFits(i, "idle", 1)
        BY <2>6 DEF Artifacts!CopyFails, InstallFits, FilesPassed, RenamedWhole, FileWhole,
                    FileWholeNext, Artifacts!In, Artifacts!At, InstallTypeOK
      <3> QED
        BY <3>1, <3>2, <3>3, <3>4, InstallMoveIInv
    <2>7. CASE Artifacts!Rename(i)
      <3>1. CASE tmp[Artifacts!At(i)] = "absent"
        <4>1. InstallMoved(i, "idle", 1) /\ UNCHANGED <<store, summed>>
          BY <2>7, <3>1, InstallMoves DEF Artifacts!Rename
        <4>2. \A j \in Caller : Artifacts!Installing(j) => j = i
          BY <2>7, <3>1, <2>0 DEF Artifacts!Rename, Artifacts!In, Artifacts!Installing
        <4>3. disk' \in [Artifacts!File -> Content] /\ tmp' \in [Artifacts!File -> Content]
          BY <2>7, <3>1 DEF Artifacts!Rename, InstallTypeOK
        <4>4. InstallFits(i, "idle", 1)
          BY <2>7, <3>1 DEF Artifacts!Rename, InstallFits, FilesPassed, RenamedWhole, FileWhole,
                            FileWholeNext, Artifacts!In, Artifacts!At, InstallTypeOK
        <4> QED
          BY <4>1, <4>2, <4>3, <4>4, InstallMoveIInv
      <3>2. CASE tmp[Artifacts!At(i)] # "absent"
        <4>1. InstallMoved(i, "verify", Artifacts!At(i)) /\ UNCHANGED <<store, summed>>
          BY <2>7, <3>2, InstallMoves DEF Artifacts!Rename
        <4>2. \A j \in Caller : Artifacts!Installing(j) => j = i
          BY <2>7, <3>2, <2>0 DEF Artifacts!Rename, Artifacts!In, Artifacts!Installing
        <4>3. disk' \in [Artifacts!File -> Content] /\ tmp' \in [Artifacts!File -> Content]
          BY <2>7, <3>2 DEF Artifacts!Rename, InstallTypeOK
        <4>4. InstallFits(i, "verify", Artifacts!At(i))
          BY <2>7, <3>2 DEF Artifacts!Rename, InstallFits, FilesPassed, RenamedWhole, FileWhole,
                            FileWholeNext, Artifacts!In, Artifacts!At, InstallTypeOK
        <4> QED
          BY <4>1, <4>2, <4>3, <4>4, InstallMoveIInv
      <3> QED
        BY <3>1, <3>2
    <2>8. CASE Artifacts!Verify(i)
      <3> DEFINE Good == summed => disk[Artifacts!At(i)] = "right"
      <3>1. CASE ~Good
        <4>1. InstallMoved(i, "idle", 1) /\ UNCHANGED <<store, summed>>
          BY <2>8, <3>1, InstallMoves DEF Artifacts!Verify
        <4>2. \A j \in Caller : Artifacts!Installing(j) => j = i
          BY <2>8, <3>1, <2>0 DEF Artifacts!Verify, Artifacts!In, Artifacts!Installing
        <4>3. disk' \in [Artifacts!File -> Content] /\ tmp' \in [Artifacts!File -> Content]
          BY <2>8, <3>1 DEF Artifacts!Verify, InstallTypeOK
        <4>4. InstallFits(i, "idle", 1)
          BY <2>8, <3>1 DEF Artifacts!Verify, InstallFits, FilesPassed, RenamedWhole, FileWhole,
                            FileWholeNext, Artifacts!In, Artifacts!At, InstallTypeOK
        <4> QED
          BY <4>1, <4>2, <4>3, <4>4, InstallMoveIInv
      <3>2. CASE Good /\ Artifacts!At(i) < NFiles
        <4>1. InstallMoved(i, "check", Artifacts!At(i) + 1) /\ UNCHANGED <<store, summed>>
          BY <2>8, <3>2, InstallMoves DEF Artifacts!Verify
        <4>2. \A j \in Caller : Artifacts!Installing(j) => j = i
          BY <2>8, <3>2, <2>0 DEF Artifacts!Verify, Artifacts!In, Artifacts!Installing
        <4>3. disk' \in [Artifacts!File -> Content] /\ tmp' \in [Artifacts!File -> Content]
          BY <2>8, <3>2 DEF Artifacts!Verify, InstallTypeOK
        <4>4. InstallFits(i, "check", Artifacts!At(i) + 1)
          BY <2>8, <3>2 DEF Artifacts!Verify, InstallFits, FilesPassed, RenamedWhole, FileWhole,
                            FileWholeNext, Artifacts!In, Artifacts!At, InstallTypeOK
        <4>5. Artifacts!At(i) + 1 \in Artifacts!File
          BY <3>2
        <4> QED
          BY <4>1, <4>2, <4>3, <4>4, <4>5, InstallMoveIInv
      <3>3. CASE Good /\ ~(Artifacts!At(i) < NFiles)
        <4>1. PICK pc \in {"contract", "ok"} : InstallMoved(i, pc, 1)
          BY <2>8, <3>3, InstallMoves DEF Artifacts!Verify
        <4>2. UNCHANGED <<store, summed>>
          BY <2>8 DEF Artifacts!Verify
        <4>3. \A j \in Caller : Artifacts!Installing(j) => j = i
          BY <2>8, <3>3, <2>0 DEF Artifacts!Verify, Artifacts!In, Artifacts!Installing
        <4>4. disk' \in [Artifacts!File -> Content] /\ tmp' \in [Artifacts!File -> Content]
          BY <2>8, <3>3 DEF Artifacts!Verify, InstallTypeOK
        <4>5. InstallFits(i, pc, 1)
          BY <2>8, <3>3 DEF Artifacts!Verify, InstallFits, FilesPassed, RenamedWhole, FileWhole,
                            FileWholeNext, Artifacts!In, Artifacts!At, InstallTypeOK
        <4> QED
          BY <4>1, <4>2, <4>3, <4>4, <4>5, InstallMoveIInv
      <3> QED
        BY <3>1, <3>2, <3>3
    <2>9. CASE Artifacts!Contract(i)
      <3>1. CASE Artifacts!Goto(i, "ok")
        <4>1. InstallMoved(i, "ok", Artifacts!At(i)) /\ UNCHANGED <<store, summed>>
          BY <2>9, <3>1, InstallMoves DEF Artifacts!Contract
        <4>2. \A j \in Caller : Artifacts!Installing(j) => j = i
          BY <2>9, <3>1, <2>0 DEF Artifacts!Contract, Artifacts!In, Artifacts!Installing
        <4>3. disk' \in [Artifacts!File -> Content] /\ tmp' \in [Artifacts!File -> Content]
          BY <2>9, <3>1 DEF Artifacts!Contract, InstallTypeOK
        <4>4. InstallFits(i, "ok", Artifacts!At(i))
          BY <2>9, <3>1 DEF Artifacts!Contract, InstallFits, FilesPassed, RenamedWhole, FileWhole,
                            FileWholeNext, Artifacts!In, Artifacts!At, InstallTypeOK
        <4> QED
          BY <4>1, <4>2, <4>3, <4>4, InstallMoveIInv
      <3>2. CASE Artifacts!Fails(i)
        <4>1. InstallMoved(i, "idle", 1) /\ UNCHANGED <<store, summed>>
          BY <2>9, <3>2, InstallMoves DEF Artifacts!Contract
        <4>2. \A j \in Caller : Artifacts!Installing(j) => j = i
          BY <2>9, <3>2, <2>0 DEF Artifacts!Contract, Artifacts!In, Artifacts!Installing
        <4>3. disk' \in [Artifacts!File -> Content] /\ tmp' \in [Artifacts!File -> Content]
          BY <2>9, <3>2 DEF Artifacts!Contract, InstallTypeOK
        <4>4. InstallFits(i, "idle", 1)
          BY <2>9, <3>2 DEF Artifacts!Contract, InstallFits, FilesPassed, RenamedWhole, FileWhole,
                            FileWholeNext, Artifacts!In, Artifacts!At, InstallTypeOK
        <4> QED
          BY <4>1, <4>2, <4>3, <4>4, InstallMoveIInv
      <3> QED
        BY <2>9, <3>1, <3>2 DEF Artifacts!Contract
    <2>10. CASE Artifacts!Killed(i)
      <3>1. InstallMoved(i, "idle", 1) /\ UNCHANGED <<store, summed>>
        BY <2>10, InstallMoves DEF Artifacts!Killed
      <3>2. \A j \in Caller : Artifacts!Installing(j) => j = i
        BY <2>10, <2>0 DEF Artifacts!Killed, Artifacts!In, Artifacts!Installing
      <3>3. disk' \in [Artifacts!File -> Content] /\ tmp' \in [Artifacts!File -> Content]
        BY <2>10 DEF Artifacts!Killed, InstallTypeOK
      <3>4. InstallFits(i, "idle", 1)
        BY <2>10 DEF Artifacts!Killed, InstallFits, FilesPassed, RenamedWhole, FileWhole,
                     FileWholeNext, Artifacts!In, Artifacts!At, InstallTypeOK
      <3> QED
        BY <3>1, <3>2, <3>3, <3>4, InstallMoveIInv
    <2> QED
      BY <1>1, <2>1, <2>2, <2>3, <2>4, <2>5, <2>6, <2>7, <2>8, <2>9, <2>10
  <1>2. CASE UNCHANGED Artifacts!artifactVars
    BY <1>2 DEF Artifacts!artifactVars, InstallIInv, InstallTypeOK, OneAtATime,
                Artifacts!Installing, RenamedWhole, FilesPassed, FileWhole, Artifacts!In,
                Artifacts!At
  <1> QED
    BY <1>1, <1>2 DEF Artifacts!Next

\* An install that was reported done stays whole, for any number of files and of installs
\* killed at any step, one after the other.
THEOREM ArtifactsSafe ==
  ASSUME NFiles \in Nat \ {0}, ~Together
  PROVE  Spec => []InstallIsWhole
  <1>1. Init => InstallIInv
    BY InstallInitIInv DEF Init
  <1>2. InstallIInv /\ [Next]_vars => InstallIInv'
    <2>1. [Next]_vars => Artifacts!Next \/ UNCHANGED artifactState
      BY DEF Next, vars
    <2>2. UNCHANGED artifactState => UNCHANGED Artifacts!artifactVars
      BY DEF Artifacts!artifactVars, artifactState
    <2> QED
      BY <2>1, <2>2, InstallNextIInv
  <1>3. InstallIInv => InstallIsWhole
    BY InstallIInvWhole DEF InstallIsWhole
  <1> QED
    BY <1>1, <1>2, <1>3, PTL DEF Spec

HIDE DEF Artifacts!File, Content, InstallBusy, InstallPc

(***************************************************************************)
(* Transport.  First the sentinels: nothing takes one but the iterator it  *)
(* ends.                                                                   *)
(***************************************************************************)
Frame == [kind : Link!Channel \cup {"other"}, item : Nat]

\* What the variables are, and over what close() takes its time.
LinkTypeOK ==
    /\ inQ \in [Link!Channel -> Seq(Nat)] /\ sent \in [Link!Channel -> Seq(Nat)]
    /\ frames \in Seq(Frame)
    /\ closer = "closing" => Link!OverWs
    /\ reader \in [Link!Channel -> {"none", "waiting", "ended"}]

\* The inductive invariant: nothing takes a sentinel but the iterator it ends.
LinkIInv == LinkTypeOK /\ Link!NobodyWaitsForever

USE DEF Link!Channel, Link!CLOSE

Has0(q) == \E i \in DOMAIN q : q[i] = 0

\* A sentinel stays in its queue until it is the head.
LEMMA SentinelStays ==
  ASSUME NEW q \in Seq(Nat), NEW x \in Nat
  PROVE  /\ 0 \in Link!ToSet(q) <=> Has0(q)
         /\ Append(q, x) \in Seq(Nat)
         /\ Has0(Append(q, 0))
         /\ Has0(q) => Has0(Append(q, x))
         /\ q # <<>> => /\ Head(q) \in Nat /\ Tail(q) \in Seq(Nat)
                        /\ Has0(q) /\ Head(q) # 0 => Has0(Tail(q))
  <1>1. 0 \in Link!ToSet(q) <=> Has0(q)
    BY DEF Link!ToSet, Has0
  <1>2. Has0(Append(q, 0))
    <2>1. Len(q) + 1 \in DOMAIN Append(q, 0) /\ Append(q, 0)[Len(q) + 1] = 0
      OBVIOUS
    <2> QED
      BY <2>1 DEF Has0
  <1>3. ASSUME NEW i \in DOMAIN q, q[i] = 0 PROVE Has0(Append(q, x))
    <2>1. i \in DOMAIN Append(q, x) /\ Append(q, x)[i] = 0
      BY <1>3
    <2> QED
      BY <2>1 DEF Has0
  <1>4. ASSUME q # <<>>, Head(q) # 0, NEW i \in DOMAIN q, q[i] = 0 PROVE Has0(Tail(q))
    <2>1. i # 1 /\ i - 1 \in DOMAIN Tail(q) /\ Tail(q)[i - 1] = 0
      BY <1>4
    <2> QED
      BY <2>1 DEF Has0
  <1>5. Append(q, x) \in Seq(Nat) /\ (q # <<>> => Head(q) \in Nat /\ Tail(q) \in Seq(Nat))
    OBVIOUS
  <1> QED
    BY <1>1, <1>2, <1>3, <1>4, <1>5 DEF Has0

\* What waits in the queues, by the name above.
LEMMA Waiting ==
  ASSUME LinkTypeOK
  PROVE  Link!NobodyWaitsForever <=>
           ((pump = "over" \/ (~Link!OverWs /\ closer = "done")) =>
               \A c \in Link!Channel : reader[c] = "ended" \/ Has0(inQ[c]))
  BY SentinelStays DEF Link!NobodyWaitsForever, LinkTypeOK

\* Closing the queues satisfies everybody.
LEMMA ClosedIInv ==
  ASSUME LinkTypeOK', NEW queues \in [Link!Channel -> Seq(Nat)], inQ' = Link!Closed(queues)
  PROVE  LinkIInv'
  <1>1. /\ inQ' \in [Link!Channel -> Seq(Nat)]
        /\ \A c \in Link!Channel : Has0(inQ'[c])
    BY SentinelStays DEF Link!Closed
  <1>2. \A c \in Link!Channel : 0 \in Link!ToSet(inQ'[c])
    BY <1>1, SentinelStays
  <1> QED
    BY <1>2 DEF LinkIInv, Link!NobodyWaitsForever

\* A step that takes no sentinel, and by which nobody closes.
LEMMA OpenIInv ==
  ASSUME LinkIInv, LinkTypeOK', link' = link, pump' = "over" => pump = "over",
         ~Link!OverWs /\ closer' = "done" => closer = "done",
         \A c \in Link!Channel : /\ reader[c] = "ended" => reader'[c] = "ended"
                                 /\ Has0(inQ[c]) => reader'[c] = "ended" \/ Has0(inQ'[c])
  PROVE  LinkIInv'
  <1>1. \A c \in Link!Channel : 0 \in Link!ToSet(inQ'[c]) <=> Has0(inQ'[c])
    BY SentinelStays DEF LinkTypeOK
  <1> QED
    BY <1>1, Waiting DEF LinkIInv, Link!NobodyWaitsForever, Link!OverWs

\* Every step keeps the types.
LEMMA LinkNextType == ASSUME LinkTypeOK, [Link!Next]_(Link!transportVars) PROVE LinkTypeOK'
  <1> USE DEF LinkTypeOK, Link!OverWs
  <1>0. \A q \in [Link!Channel -> Seq(Nat)] : Link!Closed(q) \in [Link!Channel -> Seq(Nat)]
    BY SentinelStays DEF Link!Closed
  <1>1. ASSUME NEW c \in Link!Channel, Link!Send(c) PROVE LinkTypeOK'
    <2>1. Link!NSent + 1 \in Nat /\ [kind |-> c, item |-> Link!NSent + 1] \in Frame
      BY DEF Link!NSent, Frame
    <2>2. /\ Append(frames, [kind |-> c, item |-> Link!NSent + 1]) \in Seq(Frame)
          /\ [inQ EXCEPT ![c] = Append(@, Link!NSent + 1)] \in [Link!Channel -> Seq(Nat)]
          /\ [sent EXCEPT ![c] = Append(@, Link!NSent + 1)] \in [Link!Channel -> Seq(Nat)]
      BY <2>1, SentinelStays
    <2> QED
      BY <1>1, <2>2 DEF Link!Send
  <1>2. CASE Link!SendOther
    <2>1. [kind |-> "other", item |-> Link!CLOSE] \in Frame
      BY DEF Frame
    <2>2. <<[kind |-> "other", item |-> Link!CLOSE]>> \in Seq(Frame)
      BY <2>1
    <2> QED
      BY <1>2, <2>2 DEF Link!SendOther
  <1>3. ASSUME NEW c \in Link!Channel, Link!StartReading(c) PROVE LinkTypeOK'
    BY <1>3 DEF Link!StartReading
  <1>4. ASSUME NEW c \in Link!Channel, Link!TakeItem(c) PROVE LinkTypeOK'
    <2>1. [inQ EXCEPT ![c] = Tail(@)] \in [Link!Channel -> Seq(Nat)]
      BY <1>4, SentinelStays DEF Link!TakeItem
    <2> QED
      BY <1>4, <2>1 DEF Link!TakeItem
  <1>5. CASE Link!EndInput \/ Link!PumpStarts \/ Link!ReceiveEnds \/ Link!CloseInProcess \/ Link!CloseWs
    BY <1>0, <1>5 DEF Link!EndInput, Link!PumpStarts, Link!ReceiveEnds, Link!PumpEnds,
                      Link!CloseInProcess, Link!CloseWs
  <1>6. CASE Link!Receive
    <2> DEFINE frame == Head(frames)
               with  == IF frame.kind = "other" THEN inQ
                        ELSE [inQ EXCEPT ![frame.kind] = Append(@, frame.item)]
    <2>1. frame \in Frame /\ Tail(frames) \in Seq(Frame)
      BY <1>6 DEF Link!Receive
    <2>2. with \in [Link!Channel -> Seq(Nat)]
      BY <2>1, SentinelStays DEF Frame
    <2> HIDE DEF with
    <2>3. /\ inQ' = with \/ inQ' = Link!Closed(with)
          /\ frames' = Tail(frames) /\ UNCHANGED <<link, sent, reader, closer>>
      BY <1>6 DEF Link!Receive, with
    <2> QED
      BY <1>0, <2>1, <2>2, <2>3
  <1>7. CASE Link!CloseEnds
    BY <1>0, <1>7 DEF Link!CloseEnds, Link!PumpEnds
  <1>8. CASE UNCHANGED Link!transportVars
    BY <1>8 DEF Link!transportVars
  <1> QED
    BY <1>1, <1>2, <1>3, <1>4, <1>5, <1>6, <1>7, <1>8 DEF Link!Next

\* Every step keeps the invariant.
LEMMA LinkNextIInv == ASSUME LinkIInv, [Link!Next]_(Link!transportVars) PROVE LinkIInv'
  <1>0. LinkTypeOK /\ LinkTypeOK'
    BY LinkNextType DEF LinkIInv
  <1>1. ASSUME NEW c \in Link!Channel, Link!Send(c) PROVE LinkIInv'
    <2>1. UNCHANGED <<link, pump, closer, reader>> /\ Link!NSent + 1 \in Nat
      BY <1>0, <1>1 DEF Link!Send, Link!NSent, LinkTypeOK
    <2>2. \A d \in Link!Channel : Has0(inQ[d]) => Has0(inQ'[d])
      BY <1>0, <1>1, <2>1, SentinelStays DEF Link!Send, LinkTypeOK
    <2> QED
      BY <1>0, <2>1, <2>2, OpenIInv
  <1>2. CASE Link!SendOther \/ Link!CloseWs \/ UNCHANGED Link!transportVars
    <2>1. /\ UNCHANGED <<link, pump, reader, inQ>>
          /\ ~Link!OverWs /\ closer' = "done" => closer = "done"
      BY <1>2 DEF Link!SendOther, Link!CloseWs, Link!transportVars
    <2> QED
      BY <1>0, <2>1, OpenIInv DEF LinkTypeOK
  <1>3. ASSUME NEW c \in Link!Channel, Link!StartReading(c) PROVE LinkIInv'
    <2>1. /\ UNCHANGED <<link, inQ, closer>> /\ (pump' = "over" => pump = "over")
          /\ reader' = [reader EXCEPT ![c] = "waiting"] /\ reader[c] = "none"
      BY <1>3 DEF Link!StartReading
    <2> QED
      BY <1>0, <2>1, OpenIInv DEF LinkTypeOK
  <1>4. ASSUME NEW c \in Link!Channel, Link!TakeItem(c) PROVE LinkIInv'
    <2>1. /\ UNCHANGED <<link, pump, closer>> /\ inQ[c] # <<>>
          /\ inQ' = [inQ EXCEPT ![c] = Tail(@)]
          /\ \/ reader' = [reader EXCEPT ![c] = "ended"]
             \/ Head(inQ[c]) # 0 /\ reader' = reader
      BY <1>4 DEF Link!TakeItem
    <2>2. inQ' \in [Link!Channel -> Seq(Nat)]
      BY <1>0, <2>1, SentinelStays DEF LinkTypeOK
    <2>3. \A d \in Link!Channel : Has0(inQ[d]) => reader'[d] = "ended" \/ Has0(inQ'[d])
      BY <1>0, <2>1, SentinelStays DEF LinkTypeOK
    <2> QED
      BY <1>0, <2>1, <2>2, <2>3, OpenIInv DEF LinkTypeOK
  <1>5. CASE Link!EndInput \/ Link!ReceiveEnds \/ Link!CloseInProcess
    BY <1>0, <1>5, ClosedIInv DEF Link!EndInput, Link!ReceiveEnds, Link!PumpEnds,
                                  Link!CloseInProcess, LinkTypeOK
  <1>6. CASE Link!PumpStarts
    <2>1. CASE transportClosed
      BY <1>0, <1>6, <2>1, ClosedIInv DEF Link!PumpStarts, Link!PumpEnds, LinkTypeOK
    <2>2. CASE ~transportClosed
      BY <1>0, <1>6, <2>2, OpenIInv DEF Link!PumpStarts, LinkTypeOK
    <2> QED
      BY <2>1, <2>2
  <1>7. CASE Link!Receive
    <2> DEFINE frame == Head(frames)
               with  == IF frame.kind = "other" THEN inQ
                        ELSE [inQ EXCEPT ![frame.kind] = Append(@, frame.item)]
    <2>0. frame \in Frame
      BY <1>0, <1>7 DEF Link!Receive, LinkTypeOK
    <2>1. with \in [Link!Channel -> Seq(Nat)] /\ \A d \in Link!Channel : Has0(inQ[d]) => Has0(with[d])
      BY <1>0, <2>0, SentinelStays DEF LinkTypeOK, Frame
    <2>2. UNCHANGED <<link, reader, closer>>
      BY <1>7 DEF Link!Receive
    <2>3. CASE inQ' = Link!Closed(with)
      BY <1>0, <2>1, <2>2, <2>3, ClosedIInv
    <2>4. CASE inQ' = with /\ UNCHANGED pump
      BY <1>0, <2>1, <2>2, <2>4, OpenIInv DEF LinkTypeOK
    <2> QED
      BY <1>7, <2>3, <2>4 DEF Link!Receive
  <1>8. CASE Link!CloseEnds
    <2>1. CASE Link!PumpEnds
      BY <1>0, <1>8, <2>1, ClosedIInv DEF Link!CloseEnds, Link!PumpEnds, LinkTypeOK
    <2>2. CASE UNCHANGED inQ /\ (pump' = "unborn" \/ pump' = pump)
      <3>1. UNCHANGED <<link, reader>> /\ Link!OverWs
        BY <1>0, <1>8 DEF Link!CloseEnds, LinkTypeOK
      <3> QED
        BY <1>0, <2>2, <3>1, OpenIInv
    <2> QED
      BY <1>8, <2>1, <2>2 DEF Link!CloseEnds
  <1> QED
    BY <1>1, <1>2, <1>3, <1>4, <1>5, <1>6, <1>7, <1>8 DEF Link!Next

HIDE DEF Link!Channel, Link!CLOSE

(***************************************************************************)
(* Transport.  Then the order of each channel.                             *)
(***************************************************************************)
\* What a client sends: items numbered from 1, for 0 is the sentinel.
Item == Nat \ {0}

\* Items are numbered as they are sent.
Numbered(out) == \A p, q \in DOMAIN out : p < q => out[p] < out[q]

\* What was read is the beginning of what went in.
ReadSoFar(out, got) == Len(got) <= Len(out) /\ \A i \in 1 .. Len(got) : got[i] = out[i]

\* What was sent and is not read.
Unread(out, got) == {out[p] : p \in Len(got) + 1 .. Len(out)}

\* It stands on the queue in its order, and behind it comes what is on its way.
Stands(out, got, queue, way) ==
    /\ \A i \in DOMAIN queue : queue[i] # 0 => queue[i] \in Unread(out, got)
    /\ \A i, j \in DOMAIN queue : (i < j /\ queue[i] # 0 /\ queue[j] # 0) => queue[i] < queue[j]
    /\ \A x \in Unread(out, got) : x \in way \/ \E i \in DOMAIN queue : queue[i] = x
    /\ \A x \in way : x \in Unread(out, got) /\ \A i \in DOMAIN queue : queue[i] < x

\* All of a channel: what was sent, read, queued, and is on its way.
Flow(out, got, queue, way) == Numbered(out) /\ ReadSoFar(out, got) /\ Stands(out, got, queue, way)

\* The numbers up to the next one.
LEMMA UpToNext ==
  ASSUME NEW n \in Nat PROVE \A i \in 1 .. n + 1 : i \in 1 .. n \/ i = n + 1
  OBVIOUS

\* An element that is put on a queue is its last.
LEMMA PutOn ==
  ASSUME NEW q \in Seq(Nat), NEW x \in Nat
  PROVE  /\ Append(q, x) \in Seq(Nat)
         /\ \A i \in DOMAIN q : i \in DOMAIN Append(q, x) /\ Append(q, x)[i] = q[i] /\ i < Len(q) + 1
         /\ Len(q) + 1 \in DOMAIN Append(q, x) /\ Append(q, x)[Len(q) + 1] = x
         /\ \A i \in DOMAIN Append(q, x) : i \in DOMAIN q \/ i = Len(q) + 1
  OBVIOUS

\* The next one is sent.
LEMMA FlowSends ==
  ASSUME NEW out \in Seq(Item), NEW got \in Seq(Nat), NEW queue \in Seq(Nat), NEW way,
         NEW x \in Item, \A p \in DOMAIN out : out[p] < x,
         Numbered(out), ReadSoFar(out, got)
  PROVE  /\ Append(out, x) \in Seq(Item)
         /\ Numbered(Append(out, x)) /\ ReadSoFar(Append(out, x), got)
         /\ Stands(out, got, queue, way) => Stands(Append(out, x), got, queue, way \cup {x})
  <1> DEFINE more == Append(out, x)
  <1>1. /\ more \in Seq(Item) /\ Len(more) = Len(out) + 1 /\ more[Len(out) + 1] = x
        /\ \A i \in 1 .. Len(out) : more[i] = out[i]
    OBVIOUS
  <1> HIDE DEF more
  <1>2. Numbered(more)
    <2>1. SUFFICES ASSUME NEW p \in DOMAIN more, NEW q \in DOMAIN more, p < q
                   PROVE  more[p] < more[q]
      BY DEF Numbered
    <2>0. DOMAIN more = 1 .. Len(out) + 1 /\ DOMAIN out = 1 .. Len(out) /\ Len(out) \in Nat
      BY <1>1
    <2>2. p \in DOMAIN out /\ more[p] = out[p] /\ (q \in DOMAIN out \/ q = Len(out) + 1)
      <3>1. p \in 1 .. Len(out) /\ (q \in 1 .. Len(out) \/ q = Len(out) + 1)
        BY <2>0, <2>1
      <3> QED
        BY <1>1, <2>0, <3>1
    <2>3. CASE q \in DOMAIN out
      <3>1. more[q] = out[q] /\ out[p] < out[q]
        BY <1>1, <2>0, <2>1, <2>2, <2>3 DEF Numbered
      <3> QED
        BY <2>2, <3>1
    <2>4. CASE q = Len(out) + 1
      <3>1. more[q] = x /\ out[p] < x
        BY <1>1, <2>2, <2>4
      <3> QED
        BY <2>2, <3>1
    <2> QED
      BY <2>2, <2>3, <2>4
  <1>3. ReadSoFar(more, got)
    BY <1>1 DEF ReadSoFar
  <1>4. Unread(more, got) = Unread(out, got) \cup {x}
    <2>1. Len(got) + 1 .. Len(more) = (Len(got) + 1 .. Len(out)) \cup {Len(out) + 1}
      BY <1>1 DEF ReadSoFar
    <2>2. \A p \in Len(got) + 1 .. Len(out) : more[p] = out[p]
      BY <1>1
    <2>3. {more[p] : p \in Len(got) + 1 .. Len(out)} = {out[p] : p \in Len(got) + 1 .. Len(out)}
      BY <2>2, Zenon
    <2>4. Unread(more, got) = {more[p] : p \in Len(got) + 1 .. Len(out)} \cup {more[Len(out) + 1]}
      BY <2>1, Zenon DEF Unread
    <2> QED
      BY <1>1, <2>3, <2>4 DEF Unread
  <1>5. \A y \in Unread(out, got) : y < x
    BY DEF Unread
  <1>6. ASSUME Stands(out, got, queue, way) PROVE Stands(more, got, queue, way \cup {x})
    <2>1. \A i \in DOMAIN queue : queue[i] < x
      BY <1>5, <1>6 DEF Stands, Item
    <2> QED
      BY <1>4, <1>6, <2>1 DEF Stands
  <1> QED
    BY <1>1, <1>2, <1>3, <1>6 DEF more

\* The first of what is on its way is put on the queue.
LEMMA FlowArrives ==
  ASSUME NEW out \in Seq(Item), NEW got \in Seq(Nat), NEW queue \in Seq(Nat), NEW way \in SUBSET Item,
         Stands(out, got, queue, way), NEW x \in way, \A y \in way : y = x \/ x < y
  PROVE  Stands(out, got, Append(queue, x), way \ {x})
  <1> DEFINE more == Append(queue, x)
  <1>1. /\ \A i \in DOMAIN queue : i \in DOMAIN more /\ more[i] = queue[i] /\ i < Len(queue) + 1
        /\ Len(queue) + 1 \in DOMAIN more /\ more[Len(queue) + 1] = x
        /\ \A i \in DOMAIN more : i \in DOMAIN queue \/ i = Len(queue) + 1
    BY PutOn DEF Item
  <1>2. \A i \in DOMAIN queue : i < Len(queue) + 1 /\ ~(Len(queue) + 1 < i)
    OBVIOUS
  <1> HIDE DEF more
  <1>3. x \in Unread(out, got) /\ \A i \in DOMAIN queue : queue[i] < x
    BY DEF Stands
  <1>4. \A i \in DOMAIN more : more[i] # 0 => more[i] \in Unread(out, got)
    BY <1>1, <1>3 DEF Stands
  <1>5. \A i, j \in DOMAIN more : (i < j /\ more[i] # 0 /\ more[j] # 0) => more[i] < more[j]
    BY <1>1, <1>2, <1>3 DEF Stands
  <1>6. \A y \in Unread(out, got) : y \in way \ {x} \/ \E i \in DOMAIN more : more[i] = y
    BY <1>1 DEF Stands
  <1>7. \A y \in way \ {x} : y \in Unread(out, got) /\ \A i \in DOMAIN more : more[i] < y
    BY <1>1 DEF Stands
  <1> QED
    BY <1>4, <1>5, <1>6, <1>7 DEF Stands, more

\* A sentinel.
LEMMA FlowCloses ==
  ASSUME NEW out \in Seq(Item), NEW got \in Seq(Nat), NEW queue \in Seq(Nat), NEW way \in SUBSET Item,
         Stands(out, got, queue, way)
  PROVE  Stands(out, got, Append(queue, 0), way)
  <1> DEFINE more == Append(queue, 0)
  <1>1. /\ \A i \in DOMAIN queue : i \in DOMAIN more /\ more[i] = queue[i]
        /\ \A i \in DOMAIN more : i \in DOMAIN queue \/ more[i] = 0
    BY PutOn
  <1> HIDE DEF more
  <1>2. \A x \in way : 0 < x
    BY DEF Item
  <1> QED
    BY <1>1, <1>2 DEF Stands, more

\* The iterator takes the head: it is the next of what was sent.
LEMMA FlowTakes ==
  ASSUME NEW out \in Seq(Item), NEW got \in Seq(Nat), NEW queue \in Seq(Nat), NEW way \in SUBSET Item,
         Flow(out, got, queue, way), queue # <<>>
  PROVE  /\ Head(queue) = 0 => Stands(out, got, Tail(queue), way)
         /\ Head(queue) # 0 => /\ ReadSoFar(out, Append(got, Head(queue)))
                               /\ Stands(out, Append(got, Head(queue)), Tail(queue), way)
  <1> DEFINE rest == Tail(queue)
             h    == Head(queue)
  <1>1. /\ 1 \in DOMAIN queue /\ h = queue[1] /\ h \in Nat
        /\ \A i \in DOMAIN rest : i + 1 \in DOMAIN queue /\ rest[i] = queue[i + 1] /\ 1 < i + 1
        /\ \A i \in DOMAIN queue : i = 1 \/ (1 < i /\ i - 1 \in DOMAIN rest /\ rest[i - 1] = queue[i])
        /\ \A i, j \in DOMAIN rest : i < j => i + 1 < j + 1
    OBVIOUS
  <1> HIDE DEF rest, h
  <1>2. Numbered(out) /\ ReadSoFar(out, got) /\ Stands(out, got, queue, way)
    BY DEF Flow
  <1>3. \A i, j \in DOMAIN rest : (i < j /\ rest[i] # 0 /\ rest[j] # 0) => rest[i] < rest[j]
    BY <1>1, <1>2 DEF Stands
  <1>4. CASE h = 0
    <2>1. \A x \in Unread(out, got) : x # 0
      BY DEF Unread, Item
    <2>2. \A i \in DOMAIN rest : rest[i] # 0 => rest[i] \in Unread(out, got)
      BY <1>1, <1>2 DEF Stands
    <2>3. \A x \in Unread(out, got) : x \in way \/ \E i \in DOMAIN rest : rest[i] = x
      <3>1. SUFFICES ASSUME NEW x \in Unread(out, got), x \notin way
                     PROVE  \E i \in DOMAIN rest : rest[i] = x
        OBVIOUS
      <3>2. PICK i \in DOMAIN queue : queue[i] = x
        BY <1>2, <3>1 DEF Stands
      <3>3. i # 1
        BY <1>1, <1>4, <2>1, <3>1, <3>2
      <3> QED
        BY <1>1, <3>2, <3>3
    <2>4. \A x \in way : x \in Unread(out, got) /\ \A i \in DOMAIN rest : rest[i] < x
      BY <1>1, <1>2 DEF Stands
    <2>5. Stands(out, got, rest, way)
      BY <1>3, <2>2, <2>3, <2>4 DEF Stands
    <2> QED
      BY <1>4, <2>5 DEF h, rest
  <1>5. CASE h # 0
    <2> DEFINE n    == Len(got) + 1
               more == Append(got, h)
    <2>1. PICK p \in Len(got) + 1 .. Len(out) : out[p] = h
      BY <1>1, <1>2, <1>5 DEF Stands, Unread
    <2>2. n \in 1 .. Len(out) /\ out[n] \in Nat /\ out[n] \in Unread(out, got) /\ (p = n \/ n < p)
      <3>1. n \in Len(got) + 1 .. Len(out) /\ n \in 1 .. Len(out) /\ (p = n \/ n < p)
        BY <2>1
      <3>2. out[n] \in Unread(out, got)
        BY <3>1 DEF Unread
      <3>3. out[n] \in Nat
        BY <3>1 DEF Item
      <3> QED
        BY <3>1, <3>2, <3>3
    <2>3. out[n] = h
      <3>1. SUFFICES ASSUME n < p PROVE FALSE
        BY <2>1, <2>2
      <3>2. out[n] < h
        BY <1>2, <2>1, <2>2, <3>1 DEF Numbered
      <3>3. out[n] \notin way
        <4>1. out[n] \in way => h < out[n]
          BY <1>1, <1>2 DEF Stands
        <4> QED
          BY <1>1, <2>2, <3>2, <4>1
      <3>4. PICK i \in DOMAIN queue : queue[i] = out[n]
        BY <1>2, <2>2, <3>3 DEF Stands
      <3>5. i # 1 /\ out[n] # 0
        BY <1>1, <2>2, <3>2, <3>4 DEF Item
      <3>6. h < out[n]
        BY <1>1, <1>2, <1>5, <3>4, <3>5 DEF Stands
      <3> QED
        BY <1>1, <2>2, <3>2, <3>6
    <2>4. /\ Len(more) = n /\ more[n] = h /\ \A i \in 1 .. Len(got) : more[i] = got[i]
      BY <1>1
    <2> HIDE DEF more
    <2>5. ReadSoFar(out, more)
      <3>1. \A i \in 1 .. n : i \in 1 .. Len(got) \/ i = n
        <4>1. Len(got) \in Nat
          OBVIOUS
        <4> QED
          BY <4>1, UpToNext, Zenon
      <3>2. \A i \in 1 .. Len(got) : got[i] = out[i]
        BY <1>2 DEF ReadSoFar
      <3>3. \A i \in 1 .. n : more[i] = out[i]
        BY <2>3, <2>4, <3>1, <3>2, Zenon
      <3>4. n <= Len(out)
        BY <2>2
      <3> QED
        BY <2>4, <3>3, <3>4, Zenon DEF ReadSoFar
    <2>6. \A x \in Unread(out, more) : x \in Unread(out, got) /\ h < x
      <3>1. SUFFICES ASSUME NEW q \in n + 1 .. Len(out)
                     PROVE  q \in Len(got) + 1 .. Len(out) /\ h < out[q]
        BY <2>4 DEF Unread
      <3>2. n < q /\ n \in DOMAIN out /\ q \in DOMAIN out
        BY <2>2, <3>1
      <3>3. h < out[q]
        BY <1>2, <2>3, <3>2 DEF Numbered
      <3> QED
        BY <2>2, <3>1, <3>3
    <2>7. \A x \in Unread(out, got) : x = h \/ x \in Unread(out, more)
      <3>1. SUFFICES ASSUME NEW q \in Len(got) + 1 .. Len(out), q # n
                     PROVE  q \in n + 1 .. Len(out)
        BY <2>3, <2>4 DEF Unread
      <3> QED
        BY <3>1
    <2>8. \A i \in DOMAIN rest : rest[i] # 0 => h < rest[i] /\ rest[i] \in Unread(out, more)
      <3>1. SUFFICES ASSUME NEW i \in DOMAIN rest, rest[i] # 0
                     PROVE  h < rest[i] /\ rest[i] \in Unread(out, more)
        OBVIOUS
      <3>2. h < rest[i] /\ rest[i] \in Unread(out, got)
        BY <1>1, <1>2, <1>5, <3>1 DEF Stands
      <3> QED
        BY <1>1, <2>7, <3>2
    <2>9. \A x \in Unread(out, more) : x \in way \/ \E i \in DOMAIN rest : rest[i] = x
      <3>1. SUFFICES ASSUME NEW x \in Unread(out, more), x \notin way
                     PROVE  \E i \in DOMAIN rest : rest[i] = x
        OBVIOUS
      <3>2. PICK i \in DOMAIN queue : queue[i] = x
        BY <1>2, <2>6, <3>1 DEF Stands
      <3>3. i # 1
        BY <1>1, <2>6, <3>1, <3>2
      <3> QED
        BY <1>1, <3>2, <3>3
    <2>10. \A x \in way : x \in Unread(out, more) /\ \A i \in DOMAIN rest : rest[i] < x
      <3>1. SUFFICES ASSUME NEW x \in way
                     PROVE  x \in Unread(out, more) /\ \A i \in DOMAIN rest : rest[i] < x
        OBVIOUS
      <3>2. x \in Unread(out, got) /\ h < x
        BY <1>1, <1>2 DEF Stands
      <3>3. x # h
        BY <1>1, <3>2
      <3> QED
        BY <1>1, <1>2, <2>7, <3>2, <3>3 DEF Stands
    <2>11. Stands(out, more, rest, way)
      BY <1>3, <2>8, <2>9, <2>10 DEF Stands
    <2> QED
      BY <1>5, <2>5, <2>11 DEF h, rest, more
  <1> QED
    BY <1>4, <1>5 DEF h

\* What was read is a prefix of what was sent.
LEMMA FlowIsPrefix ==
  ASSUME NEW out \in Seq(Item), NEW got \in Seq(Nat), ReadSoFar(out, got)
  PROVE  Link!IsPrefix(got, out)
  <1> DEFINE a == SubSeq(got, 1, Len(got))
             b == SubSeq(out, 1, Len(got))
  <1>0. Len(got) \in Nat /\ Len(got) <= Len(out) /\ \A i \in 1 .. Len(got) : got[i] = out[i]
    BY DEF ReadSoFar
  <1>1. a = [i \in 1 .. Len(got) |-> got[i]]
    BY <1>0
  <1>2. b = [i \in 1 .. Len(got) |-> out[i]]
    BY <1>0
  <1>3. a = b
    BY <1>0, <1>1, <1>2, Zenon
  <1> QED
    BY <1>0, <1>3 DEF Link!IsPrefix

\* The items of a channel that are still in frames.
Way(fs, c) == {fs[j].item : j \in {i \in DOMAIN fs : fs[i].kind = c}}

\* The frames in the order in which they were sent, the first n items in all.
FramesInOrder(fs, n) ==
    /\ \A j \in DOMAIN fs : fs[j].kind # "other" => fs[j].item \in Item /\ fs[j].item <= n
    /\ \A i, j \in DOMAIN fs : (i < j /\ fs[i].kind # "other" /\ fs[j].kind # "other")
                                 => fs[i].item < fs[j].item

\* While nothing is dropped: what an in-process iterator takes after close ends it.
LinkFlowing == Link!OverWs \/ ~transportClosed

\* The part of the inductive invariant that is about the order: what is sent and
\* what was read of it, and, as long as it flows, where the rest of it is.
LinkOrder ==
    /\ \A c \in Link!Channel :
          /\ sent[c] \in Seq(Item) /\ \A p \in DOMAIN sent[c] : sent[c][p] <= Link!NSent
          /\ Numbered(sent[c]) /\ ReadSoFar(sent[c], read[c])
    /\ FramesInOrder(frames, Link!NSent) /\ (~Link!OverWs => frames = <<>>)
    /\ read \in [Link!Channel -> Seq(Nat)]
    /\ LinkFlowing => \A c \in Link!Channel : Stands(sent[c], read[c], inQ[c], Way(frames, c))

\* A frame that is sent is the last one.
LEMMA FrameSent ==
  ASSUME NEW fs \in Seq(Frame), NEW f \in Frame, NEW n \in Nat, FramesInOrder(fs, n),
         f.item = n + 1, NEW more, more = Append(fs, f)
  PROVE  FramesInOrder(more, n + 1)
  <1>1. /\ \A i \in DOMAIN fs : i \in DOMAIN more /\ more[i] = fs[i] /\ i < Len(fs) + 1
        /\ Len(fs) + 1 \in DOMAIN more /\ more[Len(fs) + 1] = f
        /\ \A i \in DOMAIN more : i \in DOMAIN fs \/ i = Len(fs) + 1
        /\ \A i \in DOMAIN fs : ~(Len(fs) + 1 < i)
        /\ ~(Len(fs) + 1 < Len(fs) + 1)
    OBVIOUS
  <1>2. FramesInOrder(more, n + 1)
    <2>1. \A j \in DOMAIN more : more[j].kind # "other" => more[j].item \in Item /\ more[j].item <= n + 1
      BY <1>1 DEF FramesInOrder, Item
    <2>2. ASSUME NEW i \in DOMAIN more, NEW j \in DOMAIN more, i < j,
                 more[i].kind # "other", more[j].kind # "other"
          PROVE  more[i].item < more[j].item
      <3>1. i \in DOMAIN fs /\ more[i] = fs[i]
        BY <1>1, <2>2
      <3>2. CASE j \in DOMAIN fs
        BY <1>1, <2>2, <3>1, <3>2 DEF FramesInOrder
      <3>3. CASE j = Len(fs) + 1
        BY <1>1, <2>2, <3>1, <3>3 DEF FramesInOrder, Item
      <3> QED
        BY <1>1, <3>2, <3>3
    <2> QED
      BY <2>1, <2>2 DEF FramesInOrder
  <1> QED
    BY <1>2

\* Its item is on its way, on its own channel.
LEMMA WaySent ==
  ASSUME NEW fs \in Seq(Frame), NEW f \in Frame, NEW c \in Link!Channel
  PROVE  /\ f.kind = c => Way(Append(fs, f), c) = Way(fs, c) \cup {f.item}
         /\ f.kind # c => Way(Append(fs, f), c) = Way(fs, c)
  <1> DEFINE more == Append(fs, f)
  <1>1. /\ \A i \in DOMAIN fs : i \in DOMAIN more /\ more[i] = fs[i]
        /\ Len(fs) + 1 \in DOMAIN more /\ more[Len(fs) + 1] = f
        /\ \A i \in DOMAIN more : i \in DOMAIN fs \/ i = Len(fs) + 1
    OBVIOUS
  <1> HIDE DEF more
  <1>3. /\ Way(fs, c) \subseteq Way(more, c)
        /\ \A x \in Way(more, c) : x \in Way(fs, c) \/ (f.kind = c /\ x = f.item)
        /\ f.kind = c => f.item \in Way(more, c)
    <2>1. ASSUME NEW x \in Way(more, c)
          PROVE  x \in Way(fs, c) \/ (f.kind = c /\ x = f.item)
      <3>1. PICK j \in DOMAIN more : more[j].kind = c /\ x = more[j].item
        BY <2>1 DEF Way
      <3> QED
        BY <1>1, <3>1 DEF Way
    <2>2. ASSUME NEW x \in Way(fs, c) PROVE x \in Way(more, c)
      <3>1. PICK j \in DOMAIN fs : fs[j].kind = c /\ x = fs[j].item
        BY <2>2 DEF Way
      <3> QED
        BY <1>1, <3>1 DEF Way
    <2>3. f.kind = c => f.item \in Way(more, c)
      BY <1>1 DEF Way
    <2> QED
      BY <2>1, <2>2, <2>3
  <1>4. /\ f.kind = c => Way(more, c) = Way(fs, c) \cup {f.item}
        /\ f.kind # c => Way(more, c) = Way(fs, c)
    BY <1>3
  <1> QED
    BY <1>4 DEF more

\* The frames behind the first one are in order too.
LEMMA FrameReceived ==
  ASSUME NEW fs \in Seq(Frame), fs # <<>>, NEW n \in Nat, FramesInOrder(fs, n)
  PROVE  /\ FramesInOrder(Tail(fs), n)
         /\ \A c \in Link!Channel : Way(fs, c) \in SUBSET Item
  <1> DEFINE rest == Tail(fs)
  <1>1. /\ \A i \in DOMAIN rest : i + 1 \in DOMAIN fs /\ rest[i] = fs[i + 1]
        /\ \A i, j \in DOMAIN rest : i < j => i + 1 < j + 1
    OBVIOUS
  <1> HIDE DEF rest
  <1>2. FramesInOrder(rest, n)
    BY <1>1 DEF FramesInOrder
  <1>3. \A c \in Link!Channel : Way(fs, c) \in SUBSET Item
    BY DEF Way, FramesInOrder, Link!Channel
  <1> QED
    BY <1>2, <1>3 DEF rest

\* The first frame holds the least of what is on its way on its channel.
LEMMA WayReceived ==
  ASSUME NEW fs \in Seq(Frame), fs # <<>>, \E n \in Nat : FramesInOrder(fs, n),
         NEW c \in Link!Channel
  PROVE  /\ Head(fs).kind = c =>
               /\ Head(fs).item \in Way(fs, c)
               /\ Way(Tail(fs), c) = Way(fs, c) \ {Head(fs).item}
               /\ \A y \in Way(fs, c) : y = Head(fs).item \/ Head(fs).item < y
         /\ Head(fs).kind # c => Way(Tail(fs), c) = Way(fs, c)
  <1> DEFINE f    == Head(fs)
             rest == Tail(fs)
  <1>1. /\ 1 \in DOMAIN fs /\ f = fs[1]
        /\ \A i \in DOMAIN rest : i + 1 \in DOMAIN fs /\ rest[i] = fs[i + 1] /\ 1 < i + 1
        /\ \A i \in DOMAIN fs : i = 1 \/ (1 < i /\ i - 1 \in DOMAIN rest /\ rest[i - 1] = fs[i])
    OBVIOUS
  <1> HIDE DEF f, rest
  <1>2. ASSUME NEW x \in Way(rest, c) PROVE x \in Way(fs, c)
    <2>1. PICK j \in DOMAIN rest : rest[j].kind = c /\ x = rest[j].item
      BY <1>2 DEF Way
    <2> QED
      BY <1>1, <2>1 DEF Way
  <1>3. ASSUME NEW x \in Way(fs, c) PROVE x \in Way(rest, c) \/ (f.kind = c /\ x = f.item)
    <2>1. PICK j \in DOMAIN fs : fs[j].kind = c /\ x = fs[j].item
      BY <1>3 DEF Way
    <2>2. CASE j = 1
      BY <1>1, <2>1, <2>2
    <2>3. CASE j # 1
      <3>1. j - 1 \in DOMAIN rest /\ rest[j - 1] = fs[j]
        BY <1>1, <2>3
      <3> QED
        BY <2>1, <3>1 DEF Way
    <2> QED
      BY <2>2, <2>3
  <1>4. ASSUME f.kind = c
        PROVE  f.item \in Way(fs, c) /\ f.item \in Nat /\ \A y \in Way(rest, c) : y \in Nat /\ f.item < y
    <2>1. f.item \in Way(fs, c)
      BY <1>1, <1>4 DEF Way
    <2>2. c # "other"
      BY DEF Link!Channel
    <2>3. ASSUME NEW y \in Way(rest, c) PROVE y \in Nat /\ f.item < y
      <3>1. PICK j \in DOMAIN rest : rest[j].kind = c /\ y = rest[j].item
        BY <2>3 DEF Way
      <3> QED
        BY <1>1, <1>4, <2>2, <3>1 DEF FramesInOrder, Item
    <2>4. f.item \in Nat
      BY <1>1, <1>4, <2>2 DEF FramesInOrder, Item
    <2> QED
      BY <2>1, <2>3, <2>4
  <1>5. f.kind = c => f.item \notin Way(rest, c)
    BY <1>4
  <1> QED
    BY <1>2, <1>3, <1>4, <1>5 DEF f, rest

\* Sentinels on both queues.
LEMMA LinkCloses ==
  ASSUME LinkTypeOK, LinkOrder, NEW queues \in [Link!Channel -> Seq(Nat)], NEW fs,
         \A c \in Link!Channel : Way(fs, c) \in SUBSET Item
  PROVE  \A c \in Link!Channel :
            Stands(sent[c], read[c], queues[c], Way(fs, c))
               => Stands(sent[c], read[c], Link!Closed(queues)[c], Way(fs, c))
  <1>1. ASSUME NEW c \in Link!Channel, Stands(sent[c], read[c], queues[c], Way(fs, c))
        PROVE  Stands(sent[c], read[c], Link!Closed(queues)[c], Way(fs, c))
    <2>1. Link!Closed(queues)[c] = Append(queues[c], 0)
      BY DEF Link!Closed, Link!CLOSE
    <2>2. sent[c] \in Seq(Item) /\ read[c] \in Seq(Nat) /\ queues[c] \in Seq(Nat)
      BY DEF LinkOrder
    <2> QED
      BY <1>1, <2>1, <2>2, FlowCloses
  <1> QED
    BY <1>1

\* A step after which the same items are sent, read and on their way.
LEMMA LinkQuiet ==
  ASSUME LinkTypeOK, LinkOrder, UNCHANGED <<link, sent, read, frames>>,
         LinkFlowing' => LinkFlowing /\ (inQ' = inQ \/ inQ' = Link!Closed(inQ))
  PROVE  LinkOrder'
  <1>1. \A c \in Link!Channel : Way(frames, c) \in SUBSET Item
    BY DEF LinkOrder, FramesInOrder, Way, Link!Channel
  <1>2. LinkFlowing' => \A c \in Link!Channel : Stands(sent[c], read[c], inQ'[c], Way(frames, c))
    <2>1. inQ \in [Link!Channel -> Seq(Nat)]
      BY DEF LinkTypeOK
    <2>2. LinkFlowing => \A c \in Link!Channel : Stands(sent[c], read[c], inQ[c], Way(frames, c))
      BY DEF LinkOrder
    <2> QED
      BY <1>1, <2>1, <2>2, LinkCloses
  <1>3. Link!NSent' = Link!NSent /\ Link!OverWs' = Link!OverWs
    BY DEF Link!NSent, Link!OverWs
  <1> QED
    BY <1>2, <1>3 DEF LinkOrder

\* Sending is a step of the transport.
LEMMA LinkSends == \A c \in Link!Channel : Link!Send(c) => Link!Next
  BY DEF Link!Next

\* An item is sent: it is numbered above all others, in the queue or in a frame.
LEMMA LinkSendOrder ==
  ASSUME LinkTypeOK, LinkOrder, NEW c \in Link!Channel, Link!Send(c)
  PROVE  LinkOrder'
  <1> DEFINE x == Link!NSent + 1
  <1>1. /\ x \in Item /\ Link!NSent \in Nat /\ Link!NSent' = x
        /\ sent' = [sent EXCEPT ![c] = Append(sent[c], x)]
        /\ \A d \in Link!Channel : sent'[d] = IF d = c THEN Append(sent[c], x) ELSE sent[d]
        /\ UNCHANGED <<link, read, transportClosed>>
    <2>1. sent' = [sent EXCEPT ![c] = Append(sent[c], x)] /\ UNCHANGED <<link, read, transportClosed>>
      BY DEF Link!Send
    <2>2. sent["audio"] \in Seq(Nat) /\ sent["event"] \in Seq(Nat) /\ DOMAIN sent = Link!Channel
      BY DEF LinkTypeOK, Link!Channel
    <2>3. \A d \in Link!Channel : sent'[d] = IF d = c THEN Append(sent[c], x) ELSE sent[d]
      BY <2>1, <2>2
    <2>6. PICK a \in Nat, e \in Nat : a = Len(sent["audio"]) /\ e = Len(sent["event"])
      BY <2>2
    <2>4. Link!NSent \in Nat /\ Link!NSent = a + e
      BY <2>6 DEF Link!NSent, LinkTypeOK, Link!Channel
    <2>5. Link!NSent' = x
      <3>1. c = "audio" \/ c = "event"
        BY DEF Link!Channel
      <3>2. Len(Append(sent[c], x)) = Len(sent[c]) + 1
        BY <2>2, <3>1
      <3>3. CASE c = "audio"
        <4>1. Len(sent'["audio"]) = a + 1 /\ Len(sent'["event"]) = e
          BY <2>3, <2>6, <3>2, <3>3 DEF Link!Channel
        <4>2. sent' \in [Link!Channel -> Seq(Nat)]
          BY LinkNextType, LinkSends DEF LinkTypeOK
        <4>3. Link!NSent' = a + e + 1
          <5>1. a \in Nat /\ e \in Nat
            BY <2>6
          <5>2. PICK m \in Nat, n \in Nat : m = Len(sent'["audio"]) /\ n = Len(sent'["event"])
            BY <4>2 DEF Link!Channel
          <5>3. m + n = a + e + 1
            BY <4>1, <5>1, <5>2
          <5>4. Link!NSent' = m + n
            BY <4>2, <5>2 DEF Link!NSent, Link!Channel
          <5> QED
            BY <5>3, <5>4
        <4> QED
          BY <2>4, <4>3
      <3>4. CASE c = "event"
        <4>1. Len(sent'["audio"]) = a /\ Len(sent'["event"]) = e + 1
          BY <2>3, <2>6, <3>2, <3>4 DEF Link!Channel
        <4>2. sent' \in [Link!Channel -> Seq(Nat)]
          BY LinkNextType, LinkSends DEF LinkTypeOK
        <4>3. Link!NSent' = a + e + 1
          <5>1. a \in Nat /\ e \in Nat
            BY <2>6
          <5>2. PICK m \in Nat, n \in Nat : m = Len(sent'["audio"]) /\ n = Len(sent'["event"])
            BY <4>2 DEF Link!Channel
          <5>3. m + n = a + e + 1
            BY <4>1, <5>1, <5>2
          <5>4. Link!NSent' = m + n
            BY <4>2, <5>2 DEF Link!NSent, Link!Channel
          <5> QED
            BY <5>3, <5>4
        <4> QED
          BY <2>4, <4>3
      <3> QED
        BY <3>1, <3>3, <3>4
    <2> QED
      BY <2>1, <2>3, <2>4, <2>5 DEF Item
  <1> HIDE DEF x
  <1>2. /\ sent[c] \in Seq(Item) /\ read[c] \in Seq(Nat) /\ inQ[c] \in Seq(Nat)
        /\ \A p \in DOMAIN sent[c] : sent[c][p] < x
        /\ Numbered(sent[c]) /\ ReadSoFar(sent[c], read[c])
    <2>1. \A p \in DOMAIN sent[c] : sent[c][p] \in Nat /\ sent[c][p] <= Link!NSent
      BY DEF LinkOrder, Item
    <2>2. \A p \in DOMAIN sent[c] : sent[c][p] < x
      BY <1>1, <2>1 DEF x
    <2> QED
      BY <2>2 DEF LinkOrder, LinkTypeOK
  <1>3. /\ sent'[c] \in Seq(Item) /\ Numbered(sent'[c]) /\ ReadSoFar(sent'[c], read[c])
        /\ \A way : Stands(sent[c], read[c], inQ[c], way)
                      => Stands(sent'[c], read[c], inQ[c], way \cup {x})
    <2>1. sent'[c] = Append(sent[c], x)
      BY <1>1
    <2>2. /\ Append(sent[c], x) \in Seq(Item)
          /\ Numbered(Append(sent[c], x)) /\ ReadSoFar(Append(sent[c], x), read[c])
      BY <1>1, <1>2, FlowSends
    <2>3. ASSUME NEW way, Stands(sent[c], read[c], inQ[c], way)
          PROVE  Stands(Append(sent[c], x), read[c], inQ[c], way \cup {x})
      BY <1>1, <1>2, <2>3, FlowSends
    <2> QED
      BY <2>1, <2>2, <2>3, Zenon
  <1>4. \A d \in Link!Channel : \A p \in DOMAIN sent'[d] : sent'[d][p] <= x
    <2>1. \A d \in Link!Channel : \A p \in DOMAIN sent[d] : sent[d][p] \in Nat /\ sent[d][p] <= Link!NSent
      BY DEF LinkOrder, Item
    <2>2. \A d \in Link!Channel : \A p \in DOMAIN sent[d] : sent[d][p] <= x
      BY <1>1, <2>1 DEF x
    <2>3. \A p \in DOMAIN Append(sent[c], x) :
             \/ p \in DOMAIN sent[c] /\ Append(sent[c], x)[p] = sent[c][p]
             \/ Append(sent[c], x)[p] = x
      BY <1>2
    <2>4. x <= x
      BY <1>1 DEF Item
    <2> QED
      BY <1>1, <2>2, <2>3, <2>4
  <1>5. CASE Link!OverWs
    <2> DEFINE f == [kind |-> c, item |-> x]
    <2>1. f \in Frame /\ f.kind = c /\ f.item = x /\ frames' = Append(frames, f) /\ inQ' = inQ
      BY <1>1, <1>5 DEF Link!Send, Frame, Item, x
    <2> HIDE DEF f
    <2>2. /\ FramesInOrder(frames', x)
          /\ \A d \in Link!Channel : Way(frames', d) = Way(frames, d) \cup (IF c = d THEN {x} ELSE {})
      <3>1. frames \in Seq(Frame) /\ FramesInOrder(frames, Link!NSent) /\ f.item = Link!NSent + 1
        BY <2>1 DEF LinkTypeOK, LinkOrder, x
      <3>2. PICK n \in Nat : n = Link!NSent /\ FramesInOrder(frames, n) /\ f.item = n + 1
        BY <1>1, <3>1
      <3>3. FramesInOrder(frames', n + 1)
        BY <2>1, <3>1, <3>2, FrameSent
      <3>4. FramesInOrder(frames', x)
        BY <3>2, <3>3 DEF x
      <3>5. ASSUME NEW d \in Link!Channel
            PROVE  Way(frames', d) = Way(frames, d) \cup (IF c = d THEN {x} ELSE {})
        BY <2>1, <3>1, WaySent
      <3> QED
        BY <3>4, <3>5
    <2>3. \A d \in Link!Channel : Stands(sent'[d], read[d], inQ[d], Way(frames', d))
      <3>1. ASSUME NEW d \in Link!Channel, d # c PROVE Stands(sent'[d], read[d], inQ[d], Way(frames', d))
        <4>1. Way(frames', d) = Way(frames, d) /\ sent'[d] = sent[d]
          BY <1>1, <2>2, <3>1
        <4>2. Stands(sent[d], read[d], inQ[d], Way(frames, d))
          BY <1>5 DEF LinkOrder, LinkFlowing
        <4> QED
          BY <4>1, <4>2
      <3>2. Stands(sent'[c], read[c], inQ[c], Way(frames', c))
        <4>1. Way(frames', c) = Way(frames, c) \cup {x}
          BY <2>2
        <4>2. Stands(sent[c], read[c], inQ[c], Way(frames, c))
          BY <1>5 DEF LinkOrder, LinkFlowing
        <4> QED
          BY <1>3, <4>1, <4>2
      <3> QED
        BY <3>1, <3>2
    <2>4. Link!OverWs'
      BY <1>1, <1>5 DEF Link!OverWs
    <2> QED
      BY <1>1, <1>3, <1>4, <2>1, <2>2, <2>3, <2>4 DEF LinkOrder
  <1>6. CASE ~Link!OverWs
    <2>1. /\ frames' = frames /\ frames = <<>> /\ ~Link!OverWs'
          /\ \A d \in Link!Channel : inQ'[d] = IF d = c THEN Append(inQ[c], x) ELSE inQ[d]
      BY <1>1, <1>6 DEF Link!Send, LinkOrder, Link!OverWs, LinkTypeOK, x
    <2>2. FramesInOrder(frames', x) /\ \A d \in Link!Channel : Way(frames', d) = {} /\ Way(frames, d) = {}
      BY <2>1 DEF FramesInOrder, Way
    <2>3. LinkFlowing' => \A d \in Link!Channel : Stands(sent'[d], read[d], inQ'[d], Way(frames', d))
      <3> SUFFICES ASSUME LinkFlowing, NEW d \in Link!Channel
                   PROVE  Stands(sent'[d], read[d], inQ'[d], {})
        BY <1>1, <2>2 DEF LinkFlowing, Link!OverWs
      <3>1. Stands(sent[d], read[d], inQ[d], {})
        BY <2>2 DEF LinkOrder
      <3>2. CASE d = c
        <4>1. Stands(sent'[c], read[c], inQ[c], {x})
          <5>1. {} \cup {x} = {x}
            OBVIOUS
          <5> QED
            BY <1>3, <3>1, <3>2, <5>1
        <4>2. Stands(sent'[c], read[c], Append(inQ[c], x), {x} \ {x})
          BY <1>1, <1>2, <1>3, <4>1, FlowArrives
        <4>3. {x} \ {x} = {}
          OBVIOUS
        <4> QED
          BY <2>1, <3>2, <4>2, <4>3
      <3>3. CASE d # c
        BY <1>1, <2>1, <3>1, <3>3
      <3> QED
        BY <3>2, <3>3
    <2> QED
      BY <1>1, <1>3, <1>4, <2>1, <2>2, <2>3 DEF LinkOrder
  <1> QED
    BY <1>5, <1>6

\* An iterator takes the head of its queue.
LEMMA LinkTakeOrder ==
  ASSUME LinkTypeOK, LinkOrder, NEW c \in Link!Channel, Link!TakeItem(c)
  PROVE  LinkOrder'
  <1> DEFINE q == inQ[c]
  <1>1. /\ q # <<>> /\ q \in Seq(Nat) /\ Head(q) \in Nat
        /\ \A d \in Link!Channel : inQ'[d] = IF d = c THEN Tail(q) ELSE inQ[d]
        /\ UNCHANGED <<link, frames, sent, transportClosed>>
    BY DEF Link!TakeItem, LinkTypeOK
  <1>2. Link!NSent' = Link!NSent /\ Link!OverWs' = Link!OverWs /\ (LinkFlowing' <=> LinkFlowing)
    BY <1>1 DEF Link!NSent, Link!OverWs, LinkFlowing
  <1>3. /\ sent[c] \in Seq(Item) /\ read[c] \in Seq(Nat) /\ Way(frames, c) \in SUBSET Item
        /\ Numbered(sent[c]) /\ ReadSoFar(sent[c], read[c])
    BY DEF LinkOrder, FramesInOrder, Way, Link!Channel
  <1>4. LinkFlowing => Flow(sent[c], read[c], q, Way(frames, c))
    BY <1>3 DEF LinkOrder, Flow
  <1>5. /\ LinkFlowing /\ Head(q) = 0 => Stands(sent[c], read[c], Tail(q), Way(frames, c))
        /\ LinkFlowing /\ Head(q) # 0 =>
              /\ ReadSoFar(sent[c], Append(read[c], Head(q)))
              /\ Stands(sent[c], Append(read[c], Head(q)), Tail(q), Way(frames, c))
    BY <1>1, <1>3, <1>4, FlowTakes
  <1>6. CASE read' = read /\ (Head(q) = 0 \/ ~LinkFlowing)
    <2>1. LinkFlowing => \A d \in Link!Channel : Stands(sent[d], read[d], inQ'[d], Way(frames, d))
      BY <1>1, <1>5, <1>6 DEF LinkOrder
    <2> QED
      BY <1>1, <1>2, <1>6, <2>1 DEF LinkOrder
  <1>7. CASE read' = [read EXCEPT ![c] = Append(read[c], Head(q))] /\ Head(q) # 0 /\ LinkFlowing
    <2>1. \A d \in Link!Channel : read'[d] = IF d = c THEN Append(read[c], Head(q)) ELSE read[d]
      BY <1>7 DEF LinkOrder
    <2>2. read' \in [Link!Channel -> Seq(Nat)]
      BY <1>1, <1>3, <1>7 DEF LinkOrder
    <2>3. \A d \in Link!Channel : ReadSoFar(sent[d], read'[d])
      BY <1>5, <1>7, <2>1 DEF LinkOrder
    <2>4. \A d \in Link!Channel : Stands(sent[d], read'[d], inQ'[d], Way(frames, d))
      <3>1. ASSUME NEW d \in Link!Channel, d # c PROVE Stands(sent[d], read'[d], inQ'[d], Way(frames, d))
        BY <1>1, <1>7, <2>1, <3>1 DEF LinkOrder
      <3>2. Stands(sent[c], read'[c], inQ'[c], Way(frames, c))
        BY <1>1, <1>5, <1>7, <2>1
      <3> QED
        BY <3>1, <3>2
    <2> QED
      BY <1>1, <1>2, <2>2, <2>3, <2>4 DEF LinkOrder
  <1>8. \/ read' = read /\ (Head(q) = 0 \/ ~LinkFlowing)
        \/ read' = [read EXCEPT ![c] = Append(read[c], Head(q))] /\ Head(q) # 0 /\ LinkFlowing
    BY DEF Link!TakeItem, LinkFlowing, Link!CLOSE
  <1> QED
    BY <1>6, <1>7, <1>8

\* The read loop sorts the first frame onto the queue of its channel.
LEMMA LinkReceiveOrder ==
  ASSUME LinkTypeOK, LinkOrder, Link!Receive
  PROVE  LinkOrder'
  <1> DEFINE f    == Head(frames)
             with == IF f.kind = "other" THEN inQ
                     ELSE [inQ EXCEPT ![f.kind] = Append(inQ[f.kind], f.item)]
  <1>1. /\ frames # <<>> /\ frames \in Seq(Frame) /\ frames' = Tail(frames) /\ f \in Frame
        /\ UNCHANGED <<link, sent, read, transportClosed>>
        /\ inQ' = with \/ inQ' = Link!Closed(with)
    BY DEF Link!Receive, LinkTypeOK
  <1>2. Link!NSent' = Link!NSent /\ Link!OverWs' = Link!OverWs /\ (LinkFlowing' <=> LinkFlowing) /\ Link!OverWs
    BY <1>1 DEF Link!NSent, Link!OverWs, LinkFlowing, LinkOrder
  <1>3. PICK n \in Nat : n = Link!NSent /\ FramesInOrder(frames, n)
    BY DEF LinkOrder, Link!NSent, LinkTypeOK, Link!Channel
  <1>4. FramesInOrder(Tail(frames), n) /\ \A c \in Link!Channel : Way(frames, c) \in SUBSET Item
    BY <1>1, <1>3, FrameReceived
  <1>5. /\ with \in [Link!Channel -> Seq(Nat)]
        /\ \A c \in Link!Channel : with[c] = IF f.kind = c THEN Append(inQ[c], f.item) ELSE inQ[c]
    <2>1. f.kind \in Link!Channel \/ f.kind = "other"
      BY <1>1 DEF Frame
    <2>2. "other" \notin Link!Channel
      BY DEF Link!Channel
    <2>3. f.item \in Nat
      BY <1>1 DEF Frame
    <2> QED
      BY <2>1, <2>2, <2>3 DEF LinkTypeOK
  <1> HIDE DEF with
  <1>6. ASSUME NEW c \in Link!Channel
        PROVE  Stands(sent[c], read[c], with[c], Way(Tail(frames), c)) /\ Way(Tail(frames), c) \in SUBSET Item
    <2>1. Stands(sent[c], read[c], inQ[c], Way(frames, c))
      BY <1>2 DEF LinkOrder, LinkFlowing
    <2>2. sent[c] \in Seq(Item) /\ read[c] \in Seq(Nat) /\ inQ[c] \in Seq(Nat)
      BY DEF LinkOrder, LinkTypeOK
    <2>3. /\ f.kind = c => /\ f.item \in Way(frames, c)
                           /\ Way(Tail(frames), c) = Way(frames, c) \ {f.item}
                           /\ \A y \in Way(frames, c) : y = f.item \/ f.item < y
          /\ f.kind # c => Way(Tail(frames), c) = Way(frames, c)
      <3>1. frames \in Seq(Frame) /\ frames # <<>> /\ \E m \in Nat : FramesInOrder(frames, m)
        BY <1>1, <1>3
      <3> QED
        BY <3>1, WayReceived
    <2>4. CASE f.kind = c
      <3>1. Stands(sent[c], read[c], Append(inQ[c], f.item), Way(frames, c) \ {f.item})
        BY <1>4, <2>1, <2>2, <2>3, <2>4, FlowArrives
      <3> QED
        BY <1>4, <1>5, <2>3, <2>4, <3>1
    <2>5. CASE f.kind # c
      BY <1>4, <1>5, <2>1, <2>3, <2>5
    <2> QED
      BY <2>4, <2>5
  <1>7. \A c \in Link!Channel : Stands(sent[c], read[c], inQ'[c], Way(Tail(frames), c))
    <2>1. \A c \in Link!Channel : Stands(sent[c], read[c], Link!Closed(with)[c], Way(Tail(frames), c))
      BY <1>5, <1>6, LinkCloses
    <2> QED
      BY <1>1, <1>6, <2>1
  <1> QED
    BY <1>1, <1>2, <1>3, <1>4, <1>7 DEF LinkOrder

\* Every step keeps the order.
LEMMA LinkNextOrder ==
  ASSUME LinkTypeOK, LinkOrder, [Link!Next]_(Link!transportVars)
  PROVE  LinkOrder'
  <1>1. CASE Link!SendOther
    <2>1. /\ frames' = <<[kind |-> "other", item |-> 0]>> /\ frames = <<>> /\ Link!OverWs
          /\ UNCHANGED <<link, inQ, sent, read, transportClosed>>
      BY <1>1 DEF Link!SendOther, Link!CLOSE
    <2>2. Link!NSent' = Link!NSent /\ Link!OverWs' = Link!OverWs /\ (LinkFlowing' <=> LinkFlowing)
      BY <2>1 DEF Link!NSent, Link!OverWs, LinkFlowing
    <2>3. FramesInOrder(frames', Link!NSent)
      BY <2>1 DEF FramesInOrder
    <2>4. \A c \in Link!Channel : Way(frames', c) = {} /\ Way(frames, c) = {}
      BY <2>1 DEF Way, Link!Channel
    <2> QED
      BY <2>1, <2>2, <2>3, <2>4 DEF LinkOrder
  <1>2. CASE Link!EndInput \/ Link!PumpStarts \/ Link!ReceiveEnds \/ Link!CloseEnds
    <2>1. /\ UNCHANGED <<link, sent, read, frames>> /\ (inQ' = inQ \/ inQ' = Link!Closed(inQ))
          /\ transportClosed' = transportClosed \/ transportClosed'
      BY <1>2 DEF Link!EndInput, Link!PumpStarts, Link!PumpEnds, Link!ReceiveEnds, Link!CloseEnds
    <2> QED
      BY <2>1, LinkQuiet DEF LinkFlowing, Link!OverWs
  <1>3. CASE Link!CloseInProcess \/ Link!CloseWs
    BY <1>3, LinkQuiet DEF Link!CloseInProcess, Link!CloseWs, LinkFlowing, Link!OverWs
  <1>4. ASSUME NEW c \in Link!Channel, Link!StartReading(c) PROVE LinkOrder'
    BY <1>4, LinkQuiet DEF Link!StartReading, LinkFlowing, Link!OverWs
  <1>5. CASE UNCHANGED Link!transportVars
    BY <1>5, LinkQuiet DEF Link!transportVars, LinkFlowing, Link!OverWs
  <1> QED
    BY <1>1, <1>2, <1>3, <1>4, <1>5, LinkSendOrder, LinkTakeOrder, LinkReceiveOrder DEF Link!Next

\* The order is what the property says of the channels.
LEMMA LinkDelivers ==
  ASSUME LinkTypeOK, LinkOrder
  PROVE  Link!InOrder
  <1>1. ASSUME NEW c \in Link!Channel PROVE Link!IsPrefix(read[c], sent[c])
    BY FlowIsPrefix DEF LinkOrder
  <1>2. ASSUME NEW c \in Link!Channel, ~transportClosed
        PROVE  /\ \A p \in Len(read[c]) + 1 .. Len(sent[c]) :
                     sent[c][p] \in Link!ToSet(inQ[c]) \/ Link!OnItsWay(c, sent[c][p])
               /\ \A i, j \in DOMAIN inQ[c] :
                     (i < j /\ inQ[c][i] # Link!CLOSE /\ inQ[c][j] # Link!CLOSE)
                        => inQ[c][i] < inQ[c][j]
    <2>1. Stands(sent[c], read[c], inQ[c], Way(frames, c))
      BY <1>2 DEF LinkOrder, LinkFlowing
    <2>2. \A x \in Way(frames, c) : Link!OnItsWay(c, x)
      <3>1. SUFFICES ASSUME NEW j \in DOMAIN frames, frames[j].kind = c
                     PROVE  frames[j] = [kind |-> c, item |-> frames[j].item]
        BY DEF Way, Link!OnItsWay
      <3>2. frames[j] \in Frame
        BY DEF LinkTypeOK
      <3> QED
        BY <3>1, <3>2 DEF Frame
    <2>3. ASSUME NEW p \in Len(read[c]) + 1 .. Len(sent[c])
          PROVE  sent[c][p] \in Link!ToSet(inQ[c]) \/ Link!OnItsWay(c, sent[c][p])
      <3>1. sent[c][p] \in Unread(sent[c], read[c])
        BY DEF Unread
      <3>2. sent[c][p] \in Way(frames, c) \/ \E i \in DOMAIN inQ[c] : inQ[c][i] = sent[c][p]
        BY <2>1, <3>1 DEF Stands
      <3> QED
        BY <2>2, <3>2 DEF Link!ToSet
    <2> QED
      BY <2>1, <2>3 DEF Stands, Link!CLOSE
  <1> QED
    BY <1>1, <1>2 DEF Link!InOrder

\* Each channel is read in the order of sending and each item once, nothing is lost
\* before close, and when the pump is over each iterator has its sentinel or is
\* ended: for any number of items, over either transport.
THEOREM TransportSafe == Spec => []TransportDelivers
  <1> DEFINE IInv == LinkIInv /\ LinkOrder
  <1>1. Init => IInv
    <2> SUFFICES ASSUME Link!Init PROVE IInv
      BY DEF Init
    <2>1. <<>> \in Seq(Nat) /\ <<>> \in Seq(Frame) /\ <<>> \in Seq(Item)
      OBVIOUS
    <2>2. LinkTypeOK
      BY <2>1 DEF Link!Init, LinkTypeOK
    <2>3. LinkIInv
      BY <2>2 DEF Link!Init, LinkIInv, Link!NobodyWaitsForever
    <2>4. \A c \in Link!Channel : Numbered(<<>>) /\ ReadSoFar(<<>>, <<>>)
                                  /\ Unread(<<>>, <<>>) = {} /\ Way(<<>>, c) = {}
      BY DEF Numbered, ReadSoFar, Unread, Way
    <2>5. \A c \in Link!Channel : Stands(<<>>, <<>>, <<>>, Way(<<>>, c))
      BY <2>4 DEF Stands
    <2>6. FramesInOrder(<<>>, Link!NSent)
      BY DEF FramesInOrder
    <2>7. LinkOrder
      BY <2>1, <2>4, <2>5, <2>6 DEF Link!Init, LinkOrder
    <2> QED
      BY <2>3, <2>7
  <1>2. IInv /\ [Next]_vars => IInv'
    <2>1. [Next]_vars => Link!Next \/ UNCHANGED linkState
      BY DEF Next, vars
    <2>2. UNCHANGED linkState => UNCHANGED Link!transportVars
      BY DEF Link!transportVars, linkState
    <2>3. LinkIInv => LinkTypeOK
      BY DEF LinkIInv
    <2> QED
      BY <2>1, <2>2, <2>3, LinkNextIInv, LinkNextOrder
  <1>3. IInv => TransportDelivers
    BY LinkDelivers DEF LinkIInv, TransportDelivers, Link!TransportDelivers
  <1> QED
    BY <1>1, <1>2, <1>3, PTL DEF Spec
=============================================================================
