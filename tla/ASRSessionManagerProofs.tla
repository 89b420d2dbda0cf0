----------------------- MODULE ASRSessionManagerProofs -----------------------
(* Theorems about ASRSessionManager, for every set of tasks and slots and  *)
(* every bound.                                                            *)
EXTENDS ASRSessionManager, TLAPS

(* The records of the executor keep their type. *)
LEMMA LeftType ==
  ASSUME NEW o \in Op
  PROVE  Left(o) \in Op
<1>1. NoOp \in Op
  BY DEF NoOp, Op, Kinds, Results, NoStream
<1>2. [o EXCEPT !.owner = None] \in Op
  BY DEF Op
<1>3. QED
  BY <1>1, <1>2 DEF Left

LEMMA SubmittedType ==
  ASSUME NEW t \in Task, NEW k \in Kinds, NEW s \in Nat, NEW m \in Nat,
         NEW e \in Nat
  PROVE  Submitted(t, k, s, m, e) \in Op
  BY DEF Submitted, Op

LEMMA SubmitType ==
  ASSUME TypeOK, NEW t \in Task, NEW at \in PCs, NEW k \in Kinds,
         NEW s \in Nat, NEW m \in Nat, NEW e \in Nat,
         Submit(t, at, k, s, m, e)
  PROVE  /\ op' \in [Slot -> Op]
         /\ awaits' \in [Task -> Slot \cup {None}]
         /\ pc' \in [Task -> PCs]
<1>1. \A j \in Slot : Left(op[j]) \in Op
  BY LeftType DEF TypeOK
<1>2. Submitted(t, k, s, m, e) \in Op
  BY SubmittedType
<1>3. QED
  BY <1>1, <1>2 DEF Submit, TypeOK

LEMMA StopAwaitingType ==
  ASSUME TypeOK, NEW t \in Task, NEW at \in PCs, StopAwaiting(t, at)
  PROVE  /\ op' \in [Slot -> Op]
         /\ awaits' \in [Task -> Slot \cup {None}]
         /\ pc' \in [Task -> PCs]
<1>1. \A j \in Slot : Left(op[j]) \in Op
  BY LeftType DEF TypeOK
<1>2. QED
  BY <1>1 DEF StopAwaiting, TypeOK

LEMMA OutcomeType ==
  ASSUME TypeOK, NEW t \in Task, NEW at, NEW R, Resume(t, at, R)
  PROVE  Outcome(t) \in Op
  BY NoneFresh DEF TypeOK, Resume, Outcome

(* The variables that Submit and StopAwaiting assign. *)
FramesOK ==
  /\ op \in [Slot -> Op]
  /\ awaits \in [Task -> Slot \cup {None}]
  /\ pc \in [Task -> PCs]

LEMMA CancelStreamType ==
  ASSUME TypeOK, NEW t \in Task, CancelStream(t)
  PROVE  /\ FramesOK'
         /\ mstate' \in States /\ stream' \in Nat /\ generation' \in Nat
         /\ local' \in [Task -> Nat]
<1>1. FramesOK'
  BY SubmitType DEF CancelStream, TypeOK, FramesOK, PCs, Rebuilding, Kinds
<1>2. QED
  BY <1>1 DEF CancelStream, TypeOK, States, NoStream

LEMMA OpenUtteranceType ==
  ASSUME TypeOK, NEW t \in Task, NEW m \in Nat, NEW e \in Nat,
         OpenUtterance(t, m, e)
  PROVE  FramesOK' /\ generation' \in Nat
<1>1. FramesOK'
  BY SubmitType DEF OpenUtterance, TypeOK, FramesOK, PCs, Rebuilding, Kinds,
     NoStream
<1>2. QED
  BY <1>1 DEF OpenUtterance, TypeOK

LEMMA ReturnType ==
  ASSUME TypeOK, NEW t \in Task, Return(t)
  PROVE  FramesOK' /\ lock' \in Task \cup {None}
  BY StopAwaitingType DEF Return, FramesOK, PCs

LEMMA AfterCancelType ==
  ASSUME TypeOK, NEW t \in Task, NEW m \in Nat, NEW e \in Nat,
         AfterCancel(t, m, e)
  PROVE  /\ FramesOK' /\ lock' \in Task \cup {None}
         /\ mstate' \in States /\ generation' \in Nat
<1>1. CASE Return(t) /\ UNCHANGED generation
  BY <1>1, ReturnType DEF AfterCancel, CancelEnds, States, TypeOK
<1>2. CASE OpenUtterance(t, m, e) /\ UNCHANGED lock
  BY <1>2, OpenUtteranceType DEF AfterCancel, CancelEnds, States, TypeOK
<1>3. QED
  BY <1>1, <1>2 DEF AfterCancel

LEMMA HandleErrorType ==
  ASSUME TypeOK, NEW t \in Task, HandleError(t)
  PROVE  /\ FramesOK'
         /\ closed' \in SUBSET Nat /\ stream' \in Nat /\ mstate' \in States
         /\ tries' \in [Task -> Nat]
<1>1. FramesOK'
  BY StopAwaitingType DEF HandleError, FramesOK, PCs, Rebuilding
<1>2. QED
  BY <1>1 DEF HandleError, CloseStream, TypeOK, States, NoStream

(* A task that gets the lock keeps the types. *)
LEMMA EnterType ==
  ASSUME TypeOK, NEW t \in Task, Enter(t)
  PROVE  TypeOK'
<1> USE DEF PCs, Rebuilding, Kinds, States, NoStream
<1>1. CASE EnterStart(t)
  <2>1. CASE CancelStream(t)
    BY <1>1, <2>1, CancelStreamType DEF EnterStart, TypeOK, FramesOK, native
  <2>2. CASE /\ OpenUtterance(t, opLock, opEpoch)
             /\ mstate' = IF mstate \in {"active", "finalizing"} THEN "idle"
                          ELSE mstate
             /\ UNCHANGED <<stream, local>>
    <3>1. FramesOK' /\ generation' \in Nat
      BY <2>2, OpenUtteranceType DEF TypeOK
    <3>2. QED
      BY <1>1, <2>2, <3>1 DEF EnterStart, TypeOK, FramesOK, native
  <2>3. QED
    BY <1>1, <2>1, <2>2 DEF EnterStart
<1>2. CASE EnterCancel(t)
  <2>1. CASE CancelStream(t) /\ lock' = t
    BY <1>2, <2>1, CancelStreamType DEF EnterCancel, TypeOK, FramesOK, native
  <2>2. CASE /\ mstate' = "idle" /\ Return(t)
             /\ UNCHANGED <<stream, generation, local>>
    BY <1>2, <2>2, ReturnType DEF EnterCancel, TypeOK, FramesOK, native
  <2>3. QED
    BY <1>2, <2>1, <2>2 DEF EnterCancel
<1>3. ASSUME NEW k \in Kinds, NEW s \in Nat, NEW at \in PCs,
             Submit(t, at, k, s, opLock, opEpoch)
      PROVE  FramesOK'
  BY <1>3, SubmitType DEF TypeOK, FramesOK
<1>4. Return(t) => FramesOK' /\ lock' \in Task \cup {None}
  BY ReturnType
<1>5. CASE EnterAccept(t)
  <2>1. FramesOK' /\ lock' \in Task \cup {None}
    BY <1>3, <1>4, <1>5 DEF EnterAccept, TypeOK
  <2>2. QED
    BY <1>5, <2>1 DEF EnterAccept, TypeOK, FramesOK, native, manager
<1>6. CASE EnterPrepare(t)
  <2>1. FramesOK' /\ lock' \in Task \cup {None}
    BY <1>3, <1>4, <1>6 DEF EnterPrepare, TypeOK
  <2>2. QED
    BY <1>6, <2>1 DEF EnterPrepare, TypeOK, FramesOK, native, manager
<1>7. CASE EnterPartial(t)
  <2>1. FramesOK' /\ lock' \in Task \cup {None}
    BY <1>3, <1>4, <1>7 DEF EnterPartial, TypeOK
  <2>2. QED
    BY <1>7, <2>1 DEF EnterPartial, TypeOK, FramesOK, native, manager
<1>8. CASE EnterFinalize(t)
  <2>1. FramesOK' /\ lock' \in Task \cup {None}
    BY <1>3, <1>4, <1>8 DEF EnterFinalize, TypeOK
  <2>2. QED
    BY <1>8, <2>1 DEF EnterFinalize, TypeOK, FramesOK, native
<1>9. CASE EnterMarkError(t)
  BY <1>9, HandleErrorType DEF EnterMarkError, TypeOK, FramesOK
<1>10. QED
  BY <1>1, <1>2, <1>5, <1>6, <1>7, <1>8, <1>9 DEF Enter

(* The lock holder goes on after an await. *)
LEMMA ContinueType ==
  ASSUME TypeOK, NEW t \in Task, Continue(t)
  PROVE  TypeOK'
<1> USE DEF PCs, Rebuilding, Kinds, States, NoStream
<1>1. ASSUME NEW k \in Kinds, NEW s \in Nat, NEW at \in PCs,
             Submit(t, at, k, s, opLock, opEpoch)
      PROVE  FramesOK'
  BY <1>1, SubmitType DEF TypeOK, FramesOK
<1>2. Return(t) => FramesOK' /\ lock' \in Task \cup {None}
  BY ReturnType
<1>3. ASSUME NEW at \in PCs, StopAwaiting(t, at)
      PROVE  FramesOK'
  BY <1>3, StopAwaitingType DEF FramesOK
<1>4. CASE Created(t)
  <2>1. Outcome(t).arg \in Nat
    BY <1>4, OutcomeType DEF Created, Op
  <2>2. FramesOK' /\ lock' \in Task \cup {None}
    BY <1>1, <1>2, <1>4, <2>1 DEF Created, TypeOK
  <2>3. QED
    BY <1>4, <2>1, <2>2 DEF Created, TypeOK, FramesOK, native
<1>5. CASE Used(t)
  BY <1>2, <1>5 DEF Used, TypeOK, FramesOK, native, manager
<1>6. CASE Finalized(t)
  <2>1. FramesOK' /\ lock' \in Task \cup {None}
    BY <1>2, <1>6 DEF Finalized
  <2>2. /\ closed' \in SUBSET Nat /\ stream' \in Nat /\ mstate' \in States
        /\ finals' \in Seq(Nat)
    <3>1. CASE ~Discarded(t)
      <4>1. /\ closed' = closed \cup ({stream} \ {NoStream})
            /\ stream' = NoStream /\ mstate' = "idle"
            /\ finals' = Append(finals, gen0[t])
        BY <1>6, <3>1 DEF Finalized, CloseStream
      <4>2. gen0[t] \in Nat
        BY DEF TypeOK
      <4>3. QED
        BY <4>1, <4>2 DEF TypeOK
    <3>2. CASE Discarded(t)
      BY <1>6, <3>2 DEF Finalized, TypeOK
    <3>3. QED
      BY <3>1, <3>2
  <2>3. QED
    BY <1>6, <2>1, <2>2 DEF Finalized, TypeOK, FramesOK
<1>7. CASE OpFailed(t)
  BY <1>7, HandleErrorType DEF OpFailed, TypeOK, FramesOK
<1>8. CASE CancelAcked(t)
  <2>1. /\ FramesOK' /\ lock' \in Task \cup {None}
        /\ mstate' \in States /\ generation' \in Nat
    BY <1>8, AfterCancelType DEF CancelAcked, TypeOK
  <2>2. closed' \in SUBSET Nat /\ local' \in [Task -> Nat]
    BY <1>8 DEF CancelAcked, TypeOK
  <2>3. QED
    BY <1>8, <2>1, <2>2 DEF CancelAcked, TypeOK, FramesOK
<1>9. CASE CancelRaised(t)
  <2>1. CASE HasRestart
    <3>1. StopAwaiting(t, "restartC")
      BY <1>9, <2>1 DEF CancelRaised
    <3>2. FramesOK'
      BY <1>3, <3>1
    <3>3. QED
      <4>1. /\ opEpoch' = opEpoch + 1
            /\ UNCHANGED <<mstate, generation, lock, closed, local, stream,
                           abortEpoch, opLock, call, abort0, gen0, tries,
                           nstreams, worker, born, lateRestarts, finals,
                           faults, abandons>>
        BY <1>9, <2>1 DEF CancelRaised
      <4>2. QED
        BY <3>2, <4>1 DEF TypeOK, FramesOK
  <2>2. CASE ~HasRestart
    <3>1. AfterCancel(t, opLock, opEpoch)
      BY <1>9, <2>2 DEF CancelRaised
    <3>2. /\ FramesOK' /\ lock' \in Task \cup {None}
          /\ mstate' \in States /\ generation' \in Nat
      BY <3>1, AfterCancelType DEF TypeOK
    <3>3. closed' \in SUBSET Nat /\ local' \in [Task -> Nat]
      <4>1. /\ closed' = closed \cup {local[t]}
            /\ local' = [local EXCEPT ![t] = NoStream]
        BY <1>9, <2>2 DEF CancelRaised
      <4>2. QED
        BY <4>1 DEF TypeOK
    <3>4. QED
      BY <1>9, <2>2, <3>2, <3>3 DEF CancelRaised, TypeOK, FramesOK
  <2>3. QED
    BY <2>1, <2>2
<1>10. CASE CancelTimedOut(t)
  <2>1. local' \in [Task -> Nat]
    BY <1>10 DEF CancelTimedOut, NeverToClose, TypeOK
  <2>2. CASE HasRestart
    <3>1. StopAwaiting(t, "restartC")
      BY <1>10, <2>2 DEF CancelTimedOut
    <3>2. FramesOK'
      BY <1>3, <3>1
    <3>3. QED
      <4>1. /\ opEpoch' = opEpoch + 1
            /\ UNCHANGED <<mstate, generation, lock, stream, abortEpoch,
                           opLock, call, abort0, gen0, tries, native, finals,
                           faults, abandons>>
        BY <1>10, <2>2 DEF CancelTimedOut
      <4>2. QED
        BY <2>1, <3>2, <4>1 DEF TypeOK, FramesOK, native
  <2>3. CASE ~HasRestart
    <3>1. AfterCancel(t, opLock, opEpoch)
      BY <1>10, <2>3 DEF CancelTimedOut
    <3>2. /\ FramesOK' /\ lock' \in Task \cup {None}
          /\ mstate' \in States /\ generation' \in Nat
      BY <3>1, AfterCancelType DEF TypeOK
    <3>3. QED
      BY <1>10, <2>1, <2>3, <3>2 DEF CancelTimedOut, TypeOK, FramesOK, native
  <2>4. QED
    BY <2>2, <2>3
<1>11. ASSUME NEW ok \in BOOLEAN, CancelRestarted(t, ok)
       PROVE  TypeOK'
  <2>1. opLock' \in Nat /\ worker' \in Nat /\ faults' \in Nat
    BY <1>11 DEF CancelRestarted, RestartReturned, TypeOK
  <2>2. /\ FramesOK' /\ lock' \in Task \cup {None}
        /\ mstate' \in States /\ generation' \in Nat
    BY <1>11, <2>1, AfterCancelType DEF CancelRestarted, TypeOK
  <2>3. closed' \in SUBSET Nat /\ local' \in [Task -> Nat]
    BY <1>11 DEF CancelRestarted, TypeOK
  <2>4. QED
    BY <1>11, <2>1, <2>2, <2>3 DEF CancelRestarted, TypeOK, FramesOK
<1>12. ASSUME NEW ok \in BOOLEAN, RebuildRestarted(t, ok)
       PROVE  TypeOK'
  <2>1. opLock' \in Nat /\ worker' \in Nat /\ faults' \in Nat
    BY <1>12 DEF RebuildRestarted, RestartReturned, TypeOK
  <2>2. FramesOK'
    BY <1>12, <2>1, SubmitType DEF RebuildRestarted, TypeOK, FramesOK
  <2>3. QED
    BY <1>12, <2>1, <2>2 DEF RebuildRestarted, TypeOK, FramesOK
<1>13. CASE BackoffEnds(t)
  BY <1>1, <1>13 DEF BackoffEnds, TypeOK, FramesOK, native, manager
<1>14. CASE Rebuilt(t)
  <2>1. Outcome(t).arg \in Nat
    BY <1>14, OutcomeType DEF Rebuilt, Op
  <2>2. QED
    BY <1>2, <1>14, <2>1 DEF Rebuilt, TypeOK, FramesOK, native
<1>15. CASE RebuildFailed(t)
  <2>1. FramesOK' /\ opEpoch' \in Nat
    BY <1>1, <1>3, <1>15 DEF RebuildFailed, TypeOK
  <2>2. tries' \in [Task -> Nat]
    BY <1>15 DEF RebuildFailed, TypeOK
  <2>3. QED
    BY <1>15, <2>1, <2>2 DEF RebuildFailed, TypeOK, FramesOK, native
<1>16. CASE RebuildExhausted(t)
  BY <1>2, <1>16 DEF RebuildExhausted, GiveUp, TypeOK, FramesOK, native
<1>17. QED
  BY <1>4, <1>5, <1>6, <1>7, <1>8, <1>9, <1>10, <1>11, <1>12, <1>13, <1>14,
     <1>15, <1>16 DEF Continue

(* A call, a cancelled task. *)
LEMMA InvokeType ==
  ASSUME TypeOK, NEW t \in Task, NEW k \in Call, Invoke(t, k)
  PROVE  TypeOK'
<1>1. pc' \in [Task -> PCs] /\ call' \in [Task -> Call]
  BY DEF Invoke, TypeOK, PCs
<1>2. abortEpoch' \in Nat /\ faults' \in Nat
  BY DEF Invoke, TypeOK
<1>3. QED
  BY <1>1, <1>2 DEF Invoke, TypeOK, native

LEMMA AbandonType ==
  ASSUME TypeOK, NEW t \in Task, Abandon(t)
  PROVE  TypeOK'
<1>1. FramesOK'
  BY StopAwaitingType DEF Abandon, FramesOK, PCs
<1>2. /\ local' \in [Task -> Nat] /\ lock' \in Task \cup {None}
      /\ lateRestarts' \in Nat /\ abandons' \in Nat
  BY DEF Abandon, TypeOK, NoStream
<1>3. QED
  BY <1>1, <1>2 DEF Abandon, TypeOK, FramesOK, manager

(* A step of an executor thread. *)
LEMMA ThreadType ==
  ASSUME TypeOK, NEW i \in Slot, ThreadNext(i)
  PROVE  TypeOK'
<1> USE DEF tasks, manager, native
<1>1. NoOp \in Op
  BY DEF NoOp, Op, Kinds, Results, NoStream
<1>2. op[i] \in Op
  BY DEF TypeOK
<1>3. CASE StartOp(i)
  <2>1. /\ [op[i] EXCEPT !.st = "running", !.inc = worker] \in Op
        /\ [op[i] EXCEPT !.st = "retired"] \in Op
    BY <1>2 DEF Op, Results, TypeOK
  <2>2. op' \in [Slot -> Op]
    BY <1>1, <1>3, <2>1 DEF StartOp, TypeOK
  <2>3. QED
    BY <1>3, <2>2 DEF StartOp, TypeOK
<1>4. CASE DropOp(i)
  BY <1>1, <1>4 DEF DropOp, TypeOK
<1>5. ASSUME NEW res \in {"ok"} \cup Failed, FinishOp(i, res)
      PROVE  TypeOK'
  <2>1. \A n \in Nat : [op[i] EXCEPT !.st = res, !.arg = n] \in Op
    BY <1>2, <1>5 DEF Op, Results, Failed
  <2>2. op[i].arg \in Nat /\ nstreams + 1 \in Nat /\ op[i].inc \in Nat
    BY <1>2 DEF Op, TypeOK
  <2> DEFINE creates == op[i].kind = "create" /\ res = "ok"
             arg1 == IF creates THEN nstreams + 1 ELSE op[i].arg
  <2>3. op' \in [Slot -> Op]
    <3>1. arg1 \in Nat
      BY <2>2
    <3>2. op' = [op EXCEPT ![i] = IF op[i].owner = None THEN NoOp
                            ELSE [op[i] EXCEPT !.st = res, !.arg = arg1]]
      BY <1>5, Zenon DEF FinishOp
    <3>3. [op[i] EXCEPT !.st = res, !.arg = arg1] \in Op
      BY <2>1, <3>1
    <3> HIDE DEF arg1
    <3>4. QED
      BY <1>1, <3>2, <3>3 DEF TypeOK
  <2>4. /\ born' \in Seq(Nat) /\ nstreams' \in Nat
        /\ Len(born') = nstreams' /\ faults' \in Nat
    <3>1. CASE creates
      <4>1. nstreams' = nstreams + 1 /\ born' = Append(born, op[i].inc)
        BY <1>5, <3>1 DEF FinishOp
      <4>2. faults' \in Nat
        BY <1>5 DEF FinishOp, TypeOK
      <4>3. QED
        BY <2>2, <4>1, <4>2 DEF TypeOK
    <3>2. CASE ~creates
      <4>1. nstreams' = nstreams /\ born' = born
        BY <1>5, <3>2 DEF FinishOp
      <4>2. faults' \in Nat
        BY <1>5 DEF FinishOp, TypeOK
      <4>3. QED
        BY <4>1, <4>2 DEF TypeOK
    <3>3. QED
      BY <3>1, <3>2
  <2>5. QED
    BY <1>5, <2>3, <2>4 DEF FinishOp, TypeOK
<1>6. QED
  BY <1>3, <1>4, <1>5 DEF ThreadNext

(* Every reachable state has its type. *)
THEOREM TypeCorrect == Spec => []TypeOK
<1>1. Init => TypeOK
  <2>1. NoOp \in Op
    BY DEF NoOp, Op, Kinds, Results, NoStream
  <2>2. QED
    BY <2>1 DEF Init, TypeOK, States, PCs, Call, NoStream
<1>2. TypeOK /\ [Next]_vars => TypeOK'
  <2> SUFFICES ASSUME TypeOK, [Next]_vars
               PROVE  TypeOK'
    OBVIOUS
  <2>1. ASSUME NEW t \in Task, TaskNext(t)
        PROVE  TypeOK'
    BY <2>1, InvokeType, EnterType, ContinueType, AbandonType DEF TaskNext
  <2>2. ASSUME NEW i \in Slot, ThreadNext(i)
        PROVE  TypeOK'
    BY <2>2, ThreadType
  <2>3. ASSUME NEW ok \in BOOLEAN, LateRestart(ok)
        PROVE  TypeOK'
    BY <2>3 DEF LateRestart, TypeOK, tasks, manager
  <2>4. CASE UNCHANGED vars
    BY <2>4 DEF vars, tasks, manager, native, TypeOK
  <2>5. QED
    BY <2>1, <2>2, <2>3, <2>4 DEF Next
<1>3. QED
  BY <1>1, <1>2, PTL DEF Spec

-----------------------------------------------------------------------------
(* What a task is doing determines the state: HolderInv is inductive.      *)

LEMMA SubmitMoves ==
  ASSUME NEW t, NEW at, NEW k, NEW s, NEW m, NEW e, Submit(t, at, k, s, m, e)
  PROVE  pc' = [pc EXCEPT ![t] = at]
  BY DEF Submit

LEMMA AfterCancelMoves ==
  ASSUME NEW t, NEW m, NEW e, AfterCancel(t, m, e)
  PROVE  /\ mstate' = "idle"
         /\ \/ /\ call[t] = "cancel" /\ lock' = None
               /\ pc' = [pc EXCEPT ![t] = "idle"]
               /\ generation' = generation
            \/ /\ call[t] = "start" /\ lock' = lock
               /\ pc' = [pc EXCEPT ![t] = "create"]
               /\ generation' = generation + 1
  BY DEF AfterCancel, CancelEnds, OpenUtterance, Submit, Return, StopAwaiting

(* A step of the lock holder t that leaves the calls and finalize's        *)
(* snapshots alone.                                                        *)
LEMMA HolderMoves ==
  ASSUME TypeOK, HolderInv, NEW t \in Task, NEW at \in PCs \ {"lock", "finalize"},
         pc[t] \notin {"idle", "lock"},
         pc' = [pc EXCEPT ![t] = at],
         lock' = IF at = "idle" THEN None ELSE t,
         UNCHANGED <<call, abortEpoch, abort0, gen0>>,
         at \in {"feed", "prepare", "partial"} => mstate' = "active",
         at \in {"cancel", "restartC"} => mstate' = "cancelling",
         at \in Rebuilding => mstate' = "error_rebuild",
         at = "create" /\ call[t] = "accept" => mstate' = "active",
         mstate' \in {"idle", "cancelling", "error_rebuild"} => stream' = NoStream
  PROVE  HolderInv'
<1>1. lock = t
  BY DEF HolderInv
<1>2. \A u \in Task : u # t => pc[u] \in {"idle", "lock"} /\ pc'[u] = pc[u]
  BY <1>1 DEF HolderInv, TypeOK
<1>3. pc'[t] = at
  BY DEF TypeOK
<1>4. ASSUME NEW u \in Task
      PROVE  /\ pc'[u] \notin {"idle", "lock"} <=> lock' = u
             /\ pc'[u] # "idle" => call'[u] \in Calls[u]
             /\ abort0'[u] <= abortEpoch'
    BY <1>1, <1>2, <1>3, NoneFresh DEF HolderInv, PCs, Rebuilding
<1>5. ASSUME NEW u \in Task
      PROVE  /\ pc'[u] # "finalize"
             /\ pc'[u] \in {"feed", "prepare", "partial"} => mstate' = "active"
             /\ pc'[u] \in {"cancel", "restartC"} => mstate' = "cancelling"
             /\ pc'[u] \in Rebuilding => mstate' = "error_rebuild"
             /\ pc'[u] = "create" /\ call'[u] = "accept" => mstate' = "active"
  <2>1. CASE u = t
    BY <1>3, <2>1
  <2>2. CASE u # t
    BY <1>2, <2>2 DEF Rebuilding
  <2>3. QED
    BY <2>1, <2>2
<1>6. QED
  BY <1>4, <1>5 DEF HolderInv

LEMMA AfterCancelHolder ==
  ASSUME TypeOK, HolderInv, NEW t \in Task, pc[t] \in {"cancel", "restartC"},
         NEW m, NEW e, AfterCancel(t, m, e),
         UNCHANGED <<stream, call, abortEpoch, abort0, gen0>>
  PROVE  HolderInv'
<1>1. lock = t /\ stream = NoStream
  BY DEF HolderInv
<1>2. mstate' = "idle"
  BY AfterCancelMoves
<1>3. CASE /\ call[t] = "cancel" /\ lock' = None
           /\ pc' = [pc EXCEPT ![t] = "idle"]
  BY <1>1, <1>2, <1>3, HolderMoves DEF PCs, Rebuilding
<1>4. CASE /\ call[t] = "start" /\ lock' = lock
           /\ pc' = [pc EXCEPT ![t] = "create"]
  BY <1>1, <1>2, <1>4, HolderMoves DEF PCs, Rebuilding
<1>5. QED
  BY <1>3, <1>4, AfterCancelMoves

(* A step of a task t that takes the free lock.                            *)
LEMMA HolderEnters ==
  ASSUME TypeOK, HolderInv, NEW t \in Task, NEW at \in PCs \ {"lock"},
         pc[t] = "lock", lock = None,
         pc' = [pc EXCEPT ![t] = at],
         lock' = IF at = "idle" THEN None ELSE t,
         UNCHANGED <<call, abortEpoch>>,
         \A u \in Task : abort0'[u] <= abortEpoch,
         at = "finalize" => mstate' = "finalizing" /\ gen0'[t] = generation',
         at \in {"feed", "prepare", "partial"} => mstate' = "active",
         at \in {"cancel", "restartC"} => mstate' = "cancelling",
         at \in Rebuilding => mstate' = "error_rebuild",
         at = "create" /\ call[t] = "accept" => mstate' = "active",
         mstate' \in {"idle", "cancelling", "error_rebuild"} => stream' = NoStream
  PROVE  HolderInv'
<1>1. \A u \in Task : pc[u] \in {"idle", "lock"}
  BY NoneFresh DEF HolderInv
<1>2. \A u \in Task : u # t => pc'[u] = pc[u]
  BY DEF TypeOK
<1>3. pc'[t] = at
  BY DEF TypeOK
<1>4. ASSUME NEW u \in Task
      PROVE  pc'[u] \notin {"idle", "lock"} <=> lock' = u
  BY <1>1, <1>2, <1>3, NoneFresh DEF PCs
<1>5. ASSUME NEW u \in Task
      PROVE  pc'[u] # "idle" => call'[u] \in Calls[u]
  <2>1. pc[t] # "idle" /\ pc'[u] # "idle" => pc[u] # "idle"
    BY <1>2, <1>3
  <2>2. QED
    BY <2>1 DEF HolderInv
<1>6. ASSUME NEW u \in Task
      PROVE  /\ pc'[u] = "finalize" => mstate' = "finalizing" /\ gen0'[u] = generation'
             /\ pc'[u] \in {"feed", "prepare", "partial"} => mstate' = "active"
             /\ pc'[u] \in {"cancel", "restartC"} => mstate' = "cancelling"
             /\ pc'[u] \in Rebuilding => mstate' = "error_rebuild"
             /\ pc'[u] = "create" /\ call'[u] = "accept" => mstate' = "active"
  <2>1. CASE u = t
    BY <1>3, <2>1
  <2>2. CASE u # t
    BY <1>1, <1>2, <2>2 DEF Rebuilding
  <2>3. QED
    BY <2>1, <2>2
<1>7. QED
  BY <1>4, <1>5, <1>6 DEF HolderInv

(* Every call that takes the lock does so.                                 *)
LEMMA EnterHolder ==
  ASSUME TypeOK, HolderInv, NEW t \in Task, Enter(t)
  PROVE  HolderInv'
<1>1. /\ pc[t] = "lock" /\ lock = None
      /\ UNCHANGED <<call, abortEpoch>>
  BY DEF Enter, EnterStart, EnterCancel, EnterAccept, EnterPrepare,
         EnterPartial, EnterFinalize, EnterMarkError, Acquire, manager
<1>2. \A u \in Task : abort0[u] <= abortEpoch
  BY DEF HolderInv
<1>3. mstate \in {"idle", "cancelling", "error_rebuild"} => stream = NoStream
  BY DEF HolderInv
<1>4. CASE EnterStart(t)
  <2>1. call[t] = "start" /\ lock' = t /\ UNCHANGED abort0
    BY <1>4 DEF EnterStart, Acquire
  <2>2. CASE CancelStream(t)
    <3>1. /\ pc' = [pc EXCEPT ![t] = "cancel"]
          /\ mstate' = "cancelling" /\ stream' = NoStream
      BY <2>2 DEF CancelStream, Submit
    <3>2. QED
      BY <1>1, <1>2, <2>1, <3>1, HolderEnters DEF PCs, Rebuilding
  <2>3. CASE /\ ~(mstate \in {"active", "finalizing"} /\ stream # NoStream)
             /\ mstate' = IF mstate \in {"active", "finalizing"} THEN "idle"
                          ELSE mstate
             /\ OpenUtterance(t, opLock, opEpoch)
             /\ UNCHANGED stream
    <3>1. pc' = [pc EXCEPT ![t] = "create"]
      BY <2>3 DEF OpenUtterance, Submit
    <3>2. mstate' \in {"idle", "cancelling", "error_rebuild"} => stream' = NoStream
      BY <1>3, <2>3
    <3>3. QED
      BY <1>1, <1>2, <2>1, <3>1, <3>2, HolderEnters DEF PCs, Rebuilding
  <2>4. QED
    BY <1>4, <2>2, <2>3 DEF EnterStart
<1>5. CASE EnterCancel(t)
  <2>1. UNCHANGED abort0
    BY <1>5 DEF EnterCancel
  <2>2. CASE CancelStream(t) /\ lock' = t
    <3>1. /\ pc' = [pc EXCEPT ![t] = "cancel"]
          /\ mstate' = "cancelling" /\ stream' = NoStream
      BY <2>2 DEF CancelStream, Submit
    <3>2. QED
      BY <1>1, <1>2, <2>1, <2>2, <3>1, HolderEnters DEF PCs, Rebuilding
  <2>3. CASE /\ mstate = "idle" \/ stream = NoStream
             /\ mstate' = "idle" /\ Return(t) /\ UNCHANGED stream
    <3>1. pc' = [pc EXCEPT ![t] = "idle"] /\ lock' = None
      BY <2>3 DEF Return, StopAwaiting
    <3>2. stream' = NoStream
      BY <1>3, <2>3
    <3>3. QED
      BY <1>1, <1>2, <2>1, <2>3, <3>1, <3>2, HolderEnters DEF PCs, Rebuilding
  <2>4. QED
    BY <1>5, <2>2, <2>3 DEF EnterCancel
<1>6. CASE EnterAccept(t) \/ EnterPrepare(t) \/ EnterPartial(t)
  <2>1. UNCHANGED <<mstate, stream, abort0>>
    BY <1>6 DEF EnterAccept, EnterPrepare, EnterPartial, manager
  <2>2. CASE Return(t)
    <3>1. pc' = [pc EXCEPT ![t] = "idle"] /\ lock' = None
      BY <2>2 DEF Return, StopAwaiting
    <3>2. QED
      BY <1>1, <1>2, <1>3, <2>1, <3>1, HolderEnters DEF PCs, Rebuilding
  <2>3. CASE ~Return(t)
    <3>1. PICK at \in {"create", "feed", "prepare", "partial"} :
            /\ pc' = [pc EXCEPT ![t] = at]
            /\ lock' = t
            /\ mstate = "active"
      BY <1>6, <2>3 DEF EnterAccept, EnterPrepare, EnterPartial, Submit
    <3>2. QED
      BY <1>1, <1>2, <1>3, <2>1, <3>1, HolderEnters DEF PCs, Rebuilding
  <2>4. QED
    BY <2>2, <2>3
<1>7. CASE EnterFinalize(t)
  <2>1. UNCHANGED <<stream, generation>>
    BY <1>7 DEF EnterFinalize
  <2>2. CASE /\ mstate # "active" \/ stream = NoStream
             /\ mstate' = IF mstate = "active" THEN "idle" ELSE mstate
             /\ Return(t)
             /\ UNCHANGED <<abort0, gen0>>
    <3>1. pc' = [pc EXCEPT ![t] = "idle"] /\ lock' = None
      BY <2>2 DEF Return, StopAwaiting
    <3>2. mstate' \in {"idle", "cancelling", "error_rebuild"} => stream' = NoStream
      BY <1>3, <2>1, <2>2
    <3>3. QED
      BY <1>1, <1>2, <2>2, <3>1, <3>2, HolderEnters DEF PCs, Rebuilding
  <2>3. CASE /\ mstate' = "finalizing" /\ lock' = t
             /\ abort0' = [abort0 EXCEPT ![t] = abortEpoch]
             /\ gen0' = [gen0 EXCEPT ![t] = generation]
             /\ Submit(t, "finalize", "finalize", stream, opLock, opEpoch)
    <3>1. pc' = [pc EXCEPT ![t] = "finalize"]
      BY <2>3 DEF Submit
    <3>2. /\ \A u \in Task : abort0'[u] <= abortEpoch
          /\ gen0'[t] = generation'
      BY <1>2, <2>1, <2>3 DEF TypeOK
    <3>3. QED
      BY <1>1, <2>3, <3>1, <3>2, HolderEnters DEF PCs, Rebuilding
  <2>4. QED
    BY <1>7, <2>2, <2>3 DEF EnterFinalize
<1>8. CASE EnterMarkError(t)
  <2>1. /\ pc' = [pc EXCEPT ![t] = "backoff"] /\ lock' = t
        /\ mstate' = "error_rebuild" /\ stream' = NoStream
        /\ UNCHANGED abort0
    BY <1>8 DEF EnterMarkError, HandleError, StopAwaiting
  <2>2. QED
    BY <1>1, <1>2, <2>1, HolderEnters DEF PCs, Rebuilding
<1>9. QED
  BY <1>4, <1>5, <1>6, <1>7, <1>8 DEF Enter

LEMMA CreatedHolder ==
  ASSUME TypeOK, HolderInv, NEW t \in Task, Created(t)
  PROVE  HolderInv'
<1>1. /\ pc[t] = "create"
      /\ UNCHANGED <<call, abortEpoch, abort0, gen0>>
  BY DEF Created, Resume
<1>2. \/ /\ call[t] = "start" /\ mstate' = "active" /\ lock' = None
         /\ pc' = [pc EXCEPT ![t] = "idle"]
      \/ /\ call[t] = "accept" /\ UNCHANGED <<mstate, lock>>
         /\ pc' = [pc EXCEPT ![t] = "feed"]
  BY SubmitMoves DEF Created, Return, StopAwaiting
<1>3. lock = t /\ (call[t] = "accept" => mstate = "active")
  BY <1>1 DEF HolderInv
<1>4. mstate' = "active"
  BY <1>2, <1>3
<1>5. {"idle", "feed"} \subseteq PCs /\ {"idle", "feed"} \cap Rebuilding = {}
  BY DEF PCs, Rebuilding
<1>6. QED
  BY <1>1, <1>2, <1>3, <1>4, <1>5, HolderMoves

LEMMA ContinueHolder ==
  ASSUME TypeOK, HolderInv, NEW t \in Task, Continue(t)
  PROVE  HolderInv'
<1> USE DEF TypeOK, HolderInv, PCs, Rebuilding, States, NoStream
<1>1. CASE Created(t)
  BY <1>1, CreatedHolder
<1>2. CASE Used(t)
  BY <1>2, NoneFresh DEF Used, Resume, Return, StopAwaiting, manager
<1>3. CASE Finalized(t)
  BY <1>3, NoneFresh DEF Finalized, Discarded, Resume, Return, StopAwaiting
<1>4. CASE OpFailed(t)
  BY <1>4, NoneFresh DEF OpFailed, Resume, HandleError, StopAwaiting
<1>5. CASE CancelAcked(t)
  <2>1. /\ pc[t] = "cancel"
        /\ UNCHANGED <<stream, call, abortEpoch, abort0, gen0>>
    BY <1>5 DEF CancelAcked, Resume
  <2>2. AfterCancel(t, opLock, opEpoch)
    BY <1>5 DEF CancelAcked
  <2>3. QED
    BY <2>1, <2>2, AfterCancelHolder
<1>6. CASE CancelRaised(t)
  <2>1. /\ pc[t] = "cancel"
        /\ UNCHANGED <<stream, call, abortEpoch, abort0, gen0>>
    BY <1>6 DEF CancelRaised, Resume
  <2>2. CASE HasRestart
    <3>1. /\ UNCHANGED <<mstate, generation, lock>>
          /\ pc' = [pc EXCEPT ![t] = "restartC"]
      BY <1>6, <2>2 DEF CancelRaised, StopAwaiting
    <3>2. QED
      BY <2>1, <3>1, NoneFresh
  <2>3. CASE ~HasRestart
    BY <1>6, <2>1, <2>3, AfterCancelHolder DEF CancelRaised
  <2>4. QED
    BY <2>2, <2>3
<1>7. CASE CancelTimedOut(t)
  <2>1. /\ pc[t] = "cancel"
        /\ UNCHANGED <<stream, call, abortEpoch, abort0, gen0>>
    BY <1>7 DEF CancelTimedOut
  <2>2. CASE HasRestart
    <3>1. /\ UNCHANGED <<mstate, generation, lock>>
          /\ pc' = [pc EXCEPT ![t] = "restartC"]
      BY <1>7, <2>2 DEF CancelTimedOut, StopAwaiting
    <3>2. QED
      BY <2>1, <3>1, NoneFresh
  <2>3. CASE ~HasRestart
    BY <1>7, <2>1, <2>3, AfterCancelHolder DEF CancelTimedOut
  <2>4. QED
    BY <2>2, <2>3
<1>8. ASSUME NEW ok \in BOOLEAN, CancelRestarted(t, ok)
      PROVE  HolderInv'
  <2>1. /\ pc[t] = "restartC"
        /\ UNCHANGED <<stream, call, abortEpoch, abort0, gen0>>
    BY <1>8 DEF CancelRestarted
  <2>2. QED
    BY <1>8, <2>1, AfterCancelHolder DEF CancelRestarted
<1>9. ASSUME NEW ok \in BOOLEAN, RebuildRestarted(t, ok)
      PROVE  HolderInv'
  BY <1>9, NoneFresh DEF RebuildRestarted, Submit
<1>10. CASE BackoffEnds(t)
  BY <1>10, NoneFresh DEF BackoffEnds, Submit, manager
<1>11. CASE Rebuilt(t)
  BY <1>11, NoneFresh DEF Rebuilt, Resume, Return, StopAwaiting
<1>12. CASE RebuildFailed(t)
  <2>1. /\ pc[t] = "rebuild"
        /\ UNCHANGED <<mstate, stream, generation, abortEpoch, lock, call,
                       abort0, gen0>>
    BY <1>12 DEF RebuildFailed, Resume
  <2>2. \E at \in Rebuilding : pc' = [pc EXCEPT ![t] = at]
    BY <1>12, SubmitMoves DEF RebuildFailed, StopAwaiting
  <2>3. QED
    BY <2>1, <2>2, NoneFresh
<1>13. CASE RebuildExhausted(t)
  BY <1>13, NoneFresh
  DEF RebuildExhausted, GiveUp, Resume, Return, StopAwaiting
<1>14. QED
  BY <1>1, <1>2, <1>3, <1>4, <1>5, <1>6, <1>7, <1>8, <1>9, <1>10, <1>11,
     <1>12, <1>13 DEF Continue

LEMMA HolderStep == TypeOK /\ HolderInv /\ [Next]_vars => HolderInv'
<1> SUFFICES ASSUME TypeOK, HolderInv, [Next]_vars
             PROVE  HolderInv'
  OBVIOUS
<1> USE DEF TypeOK, HolderInv
<1>1. ASSUME NEW t \in Task, NEW k \in Call, Invoke(t, k)
      PROVE  HolderInv'
  <2>1. /\ pc[t] = "idle" /\ k \in Calls[t]
        /\ pc' = [pc EXCEPT ![t] = "lock"] /\ call' = [call EXCEPT ![t] = k]
        /\ abortEpoch' \in {abortEpoch, abortEpoch + 1}
        /\ UNCHANGED <<mstate, stream, generation, lock, abort0, gen0>>
    BY <1>1 DEF Invoke
  <2>2. /\ pc'[t] = "lock" /\ call'[t] = k
        /\ \A u \in Task \ {t} : pc'[u] = pc[u] /\ call'[u] = call[u]
    BY <2>1
  <2>3. abortEpoch <= abortEpoch'
    BY <2>1
  <2>4. lock # t
    BY <2>1
  <2>5. ASSUME NEW u \in Task
        PROVE  /\ pc'[u] \notin {"idle", "lock"} <=> lock' = u
               /\ pc'[u] # "idle" => call'[u] \in Calls[u]
               /\ abort0'[u] <= abortEpoch'
    <3>1. abort0'[u] <= abortEpoch'
      BY <2>1, <2>3
    <3>2. CASE u = t
      BY <2>1, <2>2, <2>4, <3>1, <3>2
    <3>3. CASE u # t
      BY <2>1, <2>2, <3>1, <3>3
    <3>4. QED
      BY <3>2, <3>3
  <2>6. ASSUME NEW u \in Task
        PROVE  /\ pc'[u] = "finalize" => mstate' = "finalizing" /\ gen0'[u] = generation'
               /\ pc'[u] \in {"feed", "prepare", "partial"} => mstate' = "active"
               /\ pc'[u] \in {"cancel", "restartC"} => mstate' = "cancelling"
               /\ pc'[u] \in Rebuilding => mstate' = "error_rebuild"
               /\ pc'[u] = "create" /\ call'[u] = "accept" => mstate' = "active"
    <3>1. CASE u = t
      BY <2>2, <3>1 DEF Rebuilding
    <3>2. CASE u # t
      BY <2>1, <2>2, <3>2
    <3>3. QED
      BY <3>1, <3>2
  <2>7. mstate' \in {"idle", "cancelling", "error_rebuild"} => stream' = NoStream
    BY <2>1
  <2>8. QED
    BY <2>5, <2>6, <2>7
<1>2. ASSUME NEW t \in Task, Abandon(t)
      PROVE  HolderInv'
  BY <1>2, NoneFresh DEF Abandon, StopAwaiting, manager, PCs, Rebuilding
<1>3. ASSUME NEW i \in Slot, ThreadNext(i)
      PROVE  HolderInv'
  <2>1. UNCHANGED <<manager, tasks>>
    BY <1>3 DEF ThreadNext, StartOp, DropOp, FinishOp
  <2>2. QED
    BY <2>1 DEF manager, tasks
<1>4. ASSUME NEW ok \in BOOLEAN, LateRestart(ok)
      PROVE  HolderInv'
  BY <1>4 DEF LateRestart, manager, tasks
<1>5. CASE UNCHANGED vars
  BY <1>5 DEF vars, manager, tasks
<1>6. QED
  BY <1>1, <1>2, <1>3, <1>4, <1>5, EnterHolder, ContinueHolder
  DEF Next, TaskNext

(* The state agrees with what the lock holder is doing, in every reachable *)
(* state: finalize's two defensive tests never fire, and a task inside a   *)
(* backend call has the state that the call was made in.                   *)
THEOREM HolderCorrect == Spec => []HolderInv
<1>1. Init => HolderInv
  BY NoneFresh DEF Init, HolderInv, NoStream, Rebuilding
<1>2. QED
  BY <1>1, HolderStep, TypeCorrect, PTL DEF Spec

-----------------------------------------------------------------------------
(* Finals.  As far as they are concerned a step is of one of four kinds.   *)

NoMarkError == \A t \in Task : "mark_error" \notin Calls[t]

Quiet ==
  /\ UNCHANGED <<finals, generation>>
  /\ Undecided' => Undecided
  /\ Pending' \in {Pending, 0}

Opens ==
  /\ finals' = finals /\ generation' = generation + 1
  /\ Pending = 0 /\ Pending' = 0

Finalizes ==
  /\ UNCHANGED <<finals, generation>>
  /\ Undecided
  /\ Pending = 0 /\ Pending' \in {generation, 0}

Accepts ==
  /\ finals' = Append(finals, generation)
  /\ generation' = generation
  /\ Undecided /\ ~Undecided'
  /\ Pending = generation /\ Pending' = 0

LEMMA Moves ==
  ASSUME TypeOK, HolderInv, NEW t \in Task, NEW at, at # "finalize",
         pc' = [pc EXCEPT ![t] = at], lock \in {t, None}
  PROVE  /\ Pending' = 0
         /\ pc[t] # "finalize" => Pending = 0
         /\ Undecided' => \/ mstate' \in {"active", "finalizing", "error_rebuild"}
                          \/ at = "create"
         /\ pc[t] = "create" => Undecided
<1>1. \A u \in Task : u # t => pc'[u] = pc[u] /\ pc[u] \in {"idle", "lock"}
  BY NoneFresh DEF HolderInv, TypeOK
<1>2. pc'[t] = at
  BY DEF TypeOK
<1>3. \A u \in Task : pc'[u] # "finalize" /\ (pc'[u] = "create" => at = "create")
  BY <1>1, <1>2
<1>4. pc[t] # "finalize" => \A u \in Task : pc[u] # "finalize"
  BY <1>1
<1>5. QED
  BY <1>3, <1>4 DEF Pending, Undecided

LEMMA AfterCancelFinals ==
  ASSUME TypeOK, HolderInv, NEW t \in Task, pc[t] \in {"cancel", "restartC"},
         NEW m, NEW e, AfterCancel(t, m, e), finals' = finals
  PROVE  Quiet \/ Opens
<1>1. lock = t
  BY DEF HolderInv
<1>2. CASE /\ call[t] = "cancel" /\ lock' = None
           /\ pc' = [pc EXCEPT ![t] = "idle"]
           /\ generation' = generation
  BY <1>1, <1>2, Moves, AfterCancelMoves DEF Quiet
<1>3. CASE /\ call[t] = "start" /\ lock' = lock
           /\ pc' = [pc EXCEPT ![t] = "create"]
           /\ generation' = generation + 1
  BY <1>1, <1>3, Moves DEF Opens
<1>4. QED
  BY <1>2, <1>3, AfterCancelMoves

LEMMA EnterFinals ==
  ASSUME TypeOK, HolderInv, HolderInv', NoMarkError, NEW t \in Task, Enter(t)
  PROVE  Quiet \/ Opens \/ Finalizes
<1>1. CASE EnterStart(t)
  <2>1. pc[t] = "lock" /\ lock = None /\ finals' = finals
    BY <1>1 DEF EnterStart, Acquire
  <2>2. \/ /\ generation' = generation /\ mstate' = "cancelling"
           /\ pc' = [pc EXCEPT ![t] = "cancel"]
        \/ /\ generation' = generation + 1
           /\ pc' = [pc EXCEPT ![t] = "create"]
    BY <1>1, SubmitMoves DEF EnterStart, CancelStream, OpenUtterance
  <2>3. QED
    BY <2>1, <2>2, Moves DEF Quiet, Opens
<1>2. CASE EnterCancel(t)
  <2>1. /\ pc[t] = "lock" /\ lock = None /\ UNCHANGED <<finals, generation>>
        /\ mstate' \in {"cancelling", "idle"}
    BY <1>2 DEF EnterCancel, Acquire, CancelStream
  <2>2. \E at \in {"idle", "cancel"} : pc' = [pc EXCEPT ![t] = at]
    BY <1>2, SubmitMoves DEF EnterCancel, CancelStream, Return, StopAwaiting
  <2>3. QED
    BY <2>1, <2>2, Moves DEF Quiet
<1>3. ASSUME EnterAccept(t) \/ EnterPrepare(t) \/ EnterPartial(t)
      PROVE  Quiet
  <2>1. /\ pc[t] = "lock" /\ lock = None
        /\ UNCHANGED <<finals, generation, mstate>>
    BY <1>3 DEF EnterAccept, EnterPrepare, EnterPartial, Acquire, manager
  <2>2. \/ pc' = [pc EXCEPT ![t] = "idle"]
        \/ /\ mstate = "active"
           /\ \E at \in {"create", "feed", "prepare", "partial"} :
                 pc' = [pc EXCEPT ![t] = at]
    BY <1>3, SubmitMoves
    DEF EnterAccept, EnterPrepare, EnterPartial, Return, StopAwaiting
  <2>3. mstate = "active" => Undecided
    BY DEF Undecided
  <2>4. mstate \in {"active", "finalizing", "error_rebuild"} => Undecided
    BY DEF Undecided
  <2>5. QED
    BY <2>1, <2>2, <2>3, <2>4, Moves DEF Quiet
<1>4. CASE EnterFinalize(t)
  <2>1. /\ pc[t] = "lock" /\ lock = None
        /\ UNCHANGED <<finals, generation, abortEpoch>>
    BY <1>4 DEF EnterFinalize, Acquire
  <2>2. CASE mstate' \in {mstate, "idle"} /\ pc' = [pc EXCEPT ![t] = "idle"]
    <3>1. mstate \in {"active", "finalizing", "error_rebuild"} => Undecided
      BY DEF Undecided
    <3>2. Pending = 0 /\ Pending' = 0
      BY <2>1, <2>2, Moves
    <3>3. \A u \in Task : pc'[u] # "create"
      BY <2>1, <2>2, NoneFresh DEF HolderInv, TypeOK
    <3>4. Undecided' => Undecided
      BY <2>2, <3>1, <3>3 DEF Undecided
    <3>5. QED
      BY <2>1, <3>2, <3>4 DEF Quiet
  <2>3. CASE mstate = "active" /\ pc' = [pc EXCEPT ![t] = "finalize"]
    <3>1. \A u \in Task : pc[u] # "finalize"
      BY <2>1, NoneFresh DEF HolderInv
    <3>2. Pending = 0 /\ Undecided
      BY <2>3, <3>1 DEF Pending, Undecided
    <3>3. QED
      BY <2>1, <3>2 DEF Finalizes, Pending
  <2>4. QED
    BY <1>4, <2>2, <2>3, SubmitMoves DEF EnterFinalize, Return, StopAwaiting
<1>5. CASE EnterMarkError(t)
  BY <1>5 DEF EnterMarkError, Acquire, HolderInv, NoMarkError
<1>6. QED
  BY <1>1, <1>2, <1>3, <1>4, <1>5 DEF Enter

LEMMA FinalizedFinals ==
  ASSUME TypeOK, HolderInv, NEW t \in Task, Finalized(t)
  PROVE  Quiet \/ Accepts
<1>1. /\ pc[t] = "finalize" /\ mstate = "finalizing" /\ gen0[t] = generation
      /\ generation' = generation /\ pc' = [pc EXCEPT ![t] = "idle"]
  BY DEF Finalized, Resume, HolderInv, Return, StopAwaiting
<1>2. lock = t
  BY <1>1 DEF HolderInv
<1>3. Undecided
  BY <1>1 DEF Undecided
<1>4. CASE Discarded(t)
  BY <1>1, <1>2, <1>3, <1>4, Moves DEF Quiet, Finalized
<1>5. CASE ~Discarded(t)
  <2>1. Pending = generation
    BY <1>1, <1>5 DEF Discarded, Pending
  <2>2. finals' = Append(finals, generation) /\ mstate' = "idle"
    BY <1>1, <1>5 DEF Finalized
  <2>3. Pending' = 0
    BY <1>1, <1>2, Moves
  <2>4. ~Undecided'
    <3>1. \A u \in Task : pc'[u] # "create"
      BY <1>1, <1>2 DEF HolderInv, TypeOK
    <3>2. QED
      BY <2>2, <3>1 DEF Undecided
  <2>5. QED
    BY <1>1, <1>3, <2>1, <2>2, <2>3, <2>4 DEF Accepts
<1>6. QED
  BY <1>4, <1>5

LEMMA ContinueFinals ==
  ASSUME TypeOK, HolderInv, NEW t \in Task, Continue(t)
  PROVE  Quiet \/ Opens \/ Accepts
<1>1. ASSUME NEW at, at # "finalize", NEW at1, at1 # "finalize",
             pc[t] = at1, at1 \notin {"idle", "lock"},
             pc' = [pc EXCEPT ![t] = at],
             UNCHANGED <<finals, generation>>,
             \/ Undecided
             \/ /\ mstate' \notin {"active", "finalizing", "error_rebuild"}
                /\ at # "create"
      PROVE  Quiet
  <2>1. lock = t
    BY <1>1 DEF HolderInv
  <2>2. QED
    BY <1>1, <2>1, Moves DEF Quiet
<1>2. CASE Created(t)
  <2>1. pc[t] = "create" /\ UNCHANGED <<finals, generation>>
    BY <1>2 DEF Created, Resume
  <2>2. \E at \in {"idle", "feed"} : pc' = [pc EXCEPT ![t] = at]
    BY <1>2, SubmitMoves DEF Created, Return, StopAwaiting
  <2>3. Undecided
    BY <2>1 DEF Undecided
  <2>4. QED
    BY <1>1, <2>1, <2>2, <2>3
<1>3. CASE Used(t)
  <2>1. /\ pc[t] \in {"feed", "prepare", "partial"}
        /\ UNCHANGED <<finals, generation>>
        /\ pc' = [pc EXCEPT ![t] = "idle"]
    BY <1>3 DEF Used, Resume, Return, StopAwaiting, manager
  <2>2. Undecided
    BY <2>1 DEF Undecided, HolderInv
  <2>3. QED
    BY <1>1, <2>1, <2>2
<1>4. CASE Finalized(t)
  BY <1>4, FinalizedFinals
<1>5. CASE OpFailed(t)
  <2>1. /\ pc[t] \in {"create", "feed", "prepare", "finalize"}
        /\ UNCHANGED <<finals, generation>>
        /\ pc' = [pc EXCEPT ![t] = "backoff"]
    BY <1>5 DEF OpFailed, Resume, HandleError, StopAwaiting
  <2>2. Undecided /\ lock = t
    BY <2>1 DEF Undecided, HolderInv
  <2>3. QED
    BY <2>1, <2>2, Moves DEF Quiet
<1>6. CASE CancelAcked(t)
  BY <1>6, AfterCancelFinals DEF CancelAcked, Resume
<1>7. ASSUME CancelRaised(t) \/ CancelTimedOut(t)
      PROVE  Quiet \/ Opens
  <2>1. pc[t] = "cancel" /\ finals' = finals
    BY <1>7 DEF CancelRaised, CancelTimedOut, Resume, native
  <2>2. CASE HasRestart
    <3>1. /\ UNCHANGED <<mstate, generation>>
          /\ pc' = [pc EXCEPT ![t] = "restartC"]
      BY <1>7, <2>2 DEF CancelRaised, CancelTimedOut, StopAwaiting
    <3>2. mstate = "cancelling"
      BY <2>1 DEF HolderInv
    <3>3. QED
      BY <1>1, <2>1, <3>1, <3>2
  <2>3. CASE ~HasRestart
    BY <1>7, <2>1, <2>3, AfterCancelFinals DEF CancelRaised, CancelTimedOut
  <2>4. QED
    BY <2>2, <2>3
<1>8. ASSUME NEW ok \in BOOLEAN, CancelRestarted(t, ok)
      PROVE  Quiet \/ Opens
  BY <1>8, AfterCancelFinals DEF CancelRestarted
<1>9. ASSUME NEW ok \in BOOLEAN,
             RebuildRestarted(t, ok) \/ BackoffEnds(t) \/ RebuildFailed(t)
             \/ Rebuilt(t) \/ RebuildExhausted(t)
      PROVE  Quiet
  <2>1. pc[t] \in Rebuilding /\ UNCHANGED <<finals, generation>>
    BY <1>9 DEF RebuildRestarted, BackoffEnds, RebuildFailed, Rebuilt,
       RebuildExhausted, Resume, Rebuilding, manager
  <2>2. \E at \in Rebuilding \cup {"idle"} : pc' = [pc EXCEPT ![t] = at]
    BY <1>9, SubmitMoves DEF RebuildRestarted, BackoffEnds, RebuildFailed,
       Rebuilt, RebuildExhausted, Rebuilding, Return, StopAwaiting
  <2>3. Undecided
    BY <2>1 DEF HolderInv, Undecided
  <2>4. \A at \in Rebuilding \cup {"idle"} : at # "finalize" /\ at # "create"
    BY DEF Rebuilding
  <2>5. pc[t] # "finalize" /\ pc[t] \notin {"idle", "lock"}
    BY <2>1 DEF Rebuilding
  <2>6. QED
    BY <1>1, <2>1, <2>2, <2>3, <2>4, <2>5
<1>10. QED
  BY <1>2, <1>3, <1>4, <1>5, <1>6, <1>7, <1>8, <1>9 DEF Continue

LEMMA StepKinds ==
  ASSUME TypeOK, HolderInv, HolderInv', NoMarkError, [Next]_vars
  PROVE  Quiet \/ Opens \/ Finalizes \/ Accepts
<1>1. ASSUME UNCHANGED <<manager, tasks, finals>>
      PROVE  Quiet
  BY <1>1 DEF Quiet, Undecided, Pending, manager, tasks
<1>2. ASSUME NEW t \in Task, NEW k \in Call, Invoke(t, k)
      PROVE  Quiet
  <2>1. /\ UNCHANGED <<finals, generation, mstate, abort0>>
        /\ pc[t] = "idle" /\ pc' = [pc EXCEPT ![t] = "lock"]
        /\ abortEpoch' \in {abortEpoch, abortEpoch + 1}
    BY <1>2 DEF Invoke, native
  <2>2. \A u \in Task : /\ pc'[u] = "finalize" <=> pc[u] = "finalize"
                        /\ pc'[u] = "create" <=> pc[u] = "create"
    BY <2>1 DEF TypeOK
  <2>3. \A u \in Task : abort0'[u] = abortEpoch' => abort0[u] = abortEpoch
    BY <2>1 DEF HolderInv, TypeOK
  <2>4. QED
    BY <2>1, <2>2, <2>3 DEF Quiet, Undecided, Pending
<1>3. ASSUME NEW t \in Task, Abandon(t)
      PROVE  Quiet
  <2>1. /\ UNCHANGED <<manager, finals, abort0>>
        /\ pc' = [pc EXCEPT ![t] = "idle"]
    BY <1>3 DEF Abandon, StopAwaiting
  <2>2. \A u \in Task : /\ pc'[u] = "finalize" => pc[u] = "finalize"
                        /\ pc'[u] = "create" => pc[u] = "create"
    BY <2>1 DEF TypeOK
  <2>3. QED
    BY <2>1, <2>2 DEF Quiet, Undecided, Pending, manager
<1>4. ASSUME NEW i \in Slot, ThreadNext(i)
      PROVE  Quiet
  BY <1>1, <1>4 DEF ThreadNext, StartOp, DropOp, FinishOp
<1>5. ASSUME NEW ok \in BOOLEAN, LateRestart(ok)
      PROVE  Quiet
  BY <1>1, <1>5 DEF LateRestart
<1>6. CASE UNCHANGED vars
  BY <1>1, <1>6 DEF vars
<1>7. QED
  BY <1>2, <1>3, <1>4, <1>5, <1>6, EnterFinals, ContinueFinals
  DEF Next, TaskNext

LEMMA FinalsStep ==
  TypeOK /\ TypeOK' /\ HolderInv /\ HolderInv' /\ FinalsInv /\ NoMarkError
    /\ [Next]_vars => FinalsInv'
<1> SUFFICES ASSUME TypeOK, TypeOK', HolderInv, HolderInv', FinalsInv,
                    NoMarkError, [Next]_vars
             PROVE  FinalsInv'
  OBVIOUS
<1>1. finals \in Seq(Nat) /\ generation \in Nat
  BY DEF TypeOK
<1>2. CASE Quiet \/ Finalizes
  <2>1. UNCHANGED <<finals, generation>> /\ (Undecided' => Undecided)
    BY <1>2 DEF Quiet, Finalizes
  <2>2. QED
    BY <2>1 DEF FinalsInv, FinalsIncrease
<1>3. CASE Opens
  <2>1. \A i \in 1 .. Len(finals) : finals[i] \in Nat
    BY <1>1
  <2>2. QED
    BY <1>1, <1>3, <2>1 DEF Opens, FinalsInv, FinalsIncrease
<1>4. CASE Accepts
  <2>1. /\ \A i \in 1 .. Len(finals) : finals[i] < generation
        /\ FinalsIncrease
    BY <1>4 DEF Accepts, FinalsInv
  <2>2. /\ finals' = Append(finals, generation) /\ generation' = generation
        /\ ~Undecided'
    BY <1>4 DEF Accepts
  <2>3. /\ Len(finals') = Len(finals) + 1
        /\ \A i \in 1 .. Len(finals) : finals'[i] = finals[i]
        /\ finals'[Len(finals) + 1] = generation
        /\ Len(finals) \in Nat
    BY <1>1, <2>2
  <2>4. \A i \in 1 .. Len(finals) + 1 : i \in 1 .. Len(finals) \/ i = Len(finals) + 1
    BY <2>3
  <2>5. QED
    BY <1>1, <2>1, <2>2, <2>3, <2>4 DEF FinalsInv, FinalsIncrease
<1>5. QED
  BY <1>2, <1>3, <1>4, StepKinds

LEMMA FinalsInvCorrect == NoMarkError /\ Spec => []FinalsInv
<1>1. Init => FinalsInv
  BY DEF Init, FinalsInv, FinalsIncrease, Undecided
<1>2. SUFFICES ASSUME NoMarkError
               PROVE  Spec => []FinalsInv
  OBVIOUS
<1>3. QED
  BY <1>1, <1>2, FinalsStep, TypeCorrect, HolderCorrect, PTL DEF Spec

(* Accepted finals carry strictly increasing generations: no utterance has *)
(* two, none comes after a later utterance's.  mark_error, which makes the *)
(* manager ACTIVE again for an utterance that already has its final, is    *)
(* assumed not to be called, as in the repository.                         *)
THEOREM FinalsCorrect == NoMarkError /\ Spec => []FinalsIncrease
<1>1. FinalsInv => FinalsIncrease
  BY DEF FinalsInv
<1>2. QED
  BY <1>1, FinalsInvCorrect, PTL

(* The manager implements UtteranceFinals: what a caller sees of the       *)
(* generations and the finals is that abstract machine, whatever the       *)
(* interleaving of calls, executor threads, failures and cancelled tasks.  *)
THEOREM FinalsRefinement == NoMarkError /\ Spec => FinalsSpec
<1>1. Init => Finals!Init
  BY DEF Init, Finals!Init, Pending
<1>2. TypeOK /\ HolderInv /\ HolderInv' /\ FinalsInv /\ NoMarkError
        /\ [Next]_vars => [Finals!Next]_(Finals!vars)
  <2> SUFFICES ASSUME TypeOK, HolderInv, HolderInv', FinalsInv, NoMarkError,
                      [Next]_vars
               PROVE  Finals!Next \/ UNCHANGED Finals!vars
    OBVIOUS
  <2> USE DEF Finals!Next, Finals!vars
  <2>1. CASE Quiet
    BY <2>1 DEF Quiet, Finals!Drop
  <2>2. CASE Opens
    BY <2>2 DEF Opens, Finals!Open
  <2>3. CASE Finalizes
    <3>1. generation > 0 /\ \A i \in 1 .. Len(finals) : finals[i] < generation
      BY <2>3 DEF Finalizes, FinalsInv
    <3>2. generation \in Nat /\ finals \in Seq(Nat)
      BY DEF TypeOK
    <3>3. ~Finals!Final(generation)
      BY <3>1, <3>2 DEF Finals!Final
    <3>4. QED
      BY <2>3, <3>1, <3>3 DEF Finalizes, Finals!Finalize
  <2>4. CASE Accepts
    <3>1. generation > 0 /\ generation \in Nat
      BY <2>4 DEF Accepts, FinalsInv, TypeOK
    <3>2. QED
      BY <2>4, <3>1 DEF Accepts, Finals!Accept
  <2>5. QED
    BY <2>1, <2>2, <2>3, <2>4, StepKinds
<1>3. SUFFICES ASSUME NoMarkError
               PROVE  Spec => FinalsSpec
  OBVIOUS
<1>4. QED
  BY <1>1, <1>2, <1>3, TypeCorrect, HolderCorrect, FinalsInvCorrect, PTL
  DEF Spec, FinalsSpec, Finals!Spec

-----------------------------------------------------------------------------
(* Operations and streams.  A step of a task t leaves the operation it     *)
(* awaited and goes on at `at`, where it may await another one.            *)

Working    == {"create", "feed", "finalize", "prepare", "partial", "cancel",
               "rebuild", "lastcreate"}
Uses       == {"feed", "finalize", "prepare", "partial"}
Creating   == {"create", "rebuild", "lastcreate"}
Restarting == {"restartC", "restartR"}
Busy       == {"queued", "running"}

KindAt(at) == IF at \in Creating THEN "create" ELSE at

(* The stream t is about in the next state.                                *)
Subject(t, at) == IF at \in Creating THEN NoStream
                  ELSE IF at = "cancel" THEN local'[t] ELSE stream'

GoesTo(t, at) ==
  \/ at \in {"idle", "backoff"} \cup Restarting /\ StopAwaiting(t, at)
  \/ /\ at \in Working
     /\ Submit(t, at, KindAt(at), Subject(t, at), opLock', opEpoch')

(* Each operation with an owner is the one its owner awaits, at the place  *)
(* for its kind, and a result has an owner.                                *)
OwnersAgree ==
  /\ \A t \in Task : awaits[t] # None => op[awaits[t]].owner = t
  /\ \A i \in Slot : op[i].owner # None => awaits[op[i].owner] = i
  /\ \A i \in Slot : /\ op[i].st \in Results => op[i].owner # None
                     /\ op[i].st = "free" => op[i].owner = None
                     /\ op[i].retire <=> op[i].kind = "cancel"
AwaitsFit ==
  \A t \in Task : /\ awaits[t] # None <=> pc[t] \in Working
                  /\ pc[t] \in Working => op[awaits[t]].kind = KindAt(pc[t])
                  /\ pc[t] \notin {"cancel", "restartC"} => local[t] = NoStream

OwnInv == OwnersAgree /\ AwaitsFit

(* What becomes of each operation when t goes on.                          *)
Stays(t, j)  == op'[j] = op[j] /\ op[j].owner # t
Ends(t, j)   == /\ op'[j] = NoOp
                /\ j = awaits[t] /\ op[j].st \in Results
Orphan(t, j) == /\ j = awaits[t] /\ op[j].st \in Busy
                /\ op'[j] = [op[j] EXCEPT !.owner = None]
Starts(t, at, j) ==
  /\ at \in Working /\ j = awaits'[t]
  /\ op'[j] = Submitted(t, KindAt(at), Subject(t, at), opLock', opEpoch')

(* What becomes of the operations when a task goes on.                     *)
LEMMA OpsAfter ==
  ASSUME TypeOK, OwnInv, NEW t \in Task, NEW at, GoesTo(t, at)
  PROVE  /\ \A j \in Slot : \/ Stays(t, j) \/ Ends(t, j) \/ Orphan(t, j)
                            \/ Starts(t, at, j)
         /\ \A u \in Task : u # t => awaits'[u] = awaits[u] /\ pc'[u] = pc[u]
         /\ pc'[t] = at
         /\ at \notin Working => awaits'[t] = None
         /\ at \in Working => /\ awaits'[t] \in Slot
                              /\ Starts(t, at, awaits'[t])
                              /\ \/ op[awaits'[t]].st = "free"
                                 \/ awaits'[t] = awaits[t]
<1> USE DEF TypeOK
<1>1. ASSUME NEW j \in Slot, j # awaits[t]
      PROVE  op[j].owner # t
  BY <1>1, NoneFresh DEF OwnInv, OwnersAgree
<1>2. ASSUME NEW j \in Slot, j = awaits[t], op'[j] = Left(op[j])
      PROVE  Ends(t, j) \/ Orphan(t, j)
  <2>1. op[j].st \in Busy \/ op[j].st \in Results
    <3>1. op[j].st # "free"
      BY <1>2, NoneFresh DEF OwnInv, OwnersAgree
    <3>2. op[j] \in Op
      OBVIOUS
    <3>3. QED
      BY <3>1, <3>2 DEF Op, Busy
  <2>2. Busy \cap Results = {}
    BY DEF Busy, Results
  <2>3. QED
    BY <1>2, <2>1, <2>2 DEF Left, Ends, Orphan
<1>3. CASE at \in {"idle", "backoff"} \cup Restarting /\ StopAwaiting(t, at)
  <2>1. /\ op' = [j \in Slot |-> IF j = awaits[t] THEN Left(op[j]) ELSE op[j]]
        /\ awaits' = [awaits EXCEPT ![t] = None]
        /\ pc' = [pc EXCEPT ![t] = at]
    BY <1>3 DEF StopAwaiting
  <2>2. at \notin Working
    BY <1>3 DEF Working, Restarting
  <2>3. ASSUME NEW j \in Slot
        PROVE  Stays(t, j) \/ Ends(t, j) \/ Orphan(t, j)
    <3>1. CASE j = awaits[t]
      BY <1>2, <2>1, <3>1
    <3>2. CASE j # awaits[t]
      BY <1>1, <2>1, <3>2 DEF Stays
    <3>3. QED
      BY <3>1, <3>2
  <2>4. QED
    BY <2>1, <2>2, <2>3
<1>4. CASE /\ at \in Working
           /\ Submit(t, at, KindAt(at), Subject(t, at), opLock', opEpoch')
  <2> DEFINE o == Submitted(t, KindAt(at), Subject(t, at), opLock', opEpoch')
  <2>1. PICK i \in Slot :
          /\ op[i].st = "free" \/ (i = awaits[t] /\ op[i].st \in Results)
          /\ op' = [j \in Slot |-> IF j = i THEN o
                                   ELSE IF j = awaits[t] THEN Left(op[j])
                                   ELSE op[j]]
          /\ awaits' = [awaits EXCEPT ![t] = i]
          /\ pc' = [pc EXCEPT ![t] = at]
    BY <1>4 DEF Submit
  <2> HIDE DEF o
  <2>2. awaits'[t] = i /\ op'[i] = o
    BY <2>1
  <2>3. Starts(t, at, i)
    BY <1>4, <2>2 DEF Starts, o
  <2>4. ASSUME NEW j \in Slot
        PROVE  \/ Stays(t, j) \/ Ends(t, j) \/ Orphan(t, j)
               \/ Starts(t, at, j)
    <3>1. CASE j = i
      BY <2>3, <3>1
    <3>2. CASE j # i /\ j = awaits[t]
      BY <1>2, <2>1, <3>2
    <3>3. CASE j # i /\ j # awaits[t]
      BY <1>1, <2>1, <3>3 DEF Stays
    <3>4. QED
      BY <3>1, <3>2, <3>3
  <2>5. QED
    BY <1>4, <2>1, <2>2, <2>3, <2>4
<1>5. QED
  BY <1>3, <1>4 DEF GoesTo

(* A task that goes on keeps the owners straight.                          *)
LEMMA GoesToOwn ==
  ASSUME TypeOK, OwnInv, NEW t \in Task, NEW at, GoesTo(t, at),
         \A u \in Task : u # t => local'[u] = local[u],
         at \notin {"cancel", "restartC"} => local'[t] = NoStream
  PROVE  OwnInv'
<1>1. /\ \A j \in Slot : \/ Stays(t, j) \/ Ends(t, j) \/ Orphan(t, j)
                         \/ Starts(t, at, j)
      /\ \A u \in Task : u # t => awaits'[u] = awaits[u] /\ pc'[u] = pc[u]
      /\ pc'[t] = at
      /\ at \notin Working => awaits'[t] = None
      /\ at \in Working => /\ awaits'[t] \in Slot
                           /\ Starts(t, at, awaits'[t])
                           /\ \/ op[awaits'[t]].st = "free"
                              \/ awaits'[t] = awaits[t]
  BY OpsAfter
<1>2. \A j \in Slot : op[j] \in Op /\ NoOp.owner = None /\ NoOp.st = "free"
                      /\ NoOp.kind = "create" /\ ~NoOp.retire
  BY DEF TypeOK, NoOp
<1>3. ASSUME NEW j \in Slot, Starts(t, at, j)
      PROVE  /\ op'[j].owner = t /\ op'[j].st = "queued"
             /\ op'[j].kind = KindAt(at) /\ op'[j].retire = (KindAt(at) = "cancel")
  BY <1>3 DEF Starts, Submitted
<1>4. ASSUME NEW j \in Slot, Orphan(t, j)
      PROVE  /\ op'[j].owner = None /\ op'[j].st = op[j].st
             /\ op'[j].kind = op[j].kind /\ op'[j].retire = op[j].retire
  BY <1>2, <1>4 DEF Orphan, Op
<1>5. awaits \in [Task -> Slot \cup {None}]
  BY DEF TypeOK
<1>6. ASSUME NEW u \in Task, u # t, awaits[u] # None
      PROVE  Stays(t, awaits[u])
  <2>1. awaits[u] \in Slot /\ op[awaits[u]].owner = u
    BY <1>5, <1>6 DEF OwnInv, OwnersAgree
  <2>2. awaits[u] # awaits[t] /\ op[awaits[u]].st # "free"
    BY <1>6, <2>1, NoneFresh DEF OwnInv, OwnersAgree
  <2>3. QED
    BY <1>1, <2>1, <2>2, <1>6 DEF Ends, Orphan, Starts
<1>7. OwnersAgree'
  <2>1. ASSUME NEW u \in Task, awaits'[u] # None
        PROVE  op'[awaits'[u]].owner = u
    <3>1. CASE u = t
      BY <1>1, <1>3, <2>1, <3>1
    <3>2. CASE u # t
      BY <1>1, <1>6, <2>1, <3>2 DEF Stays, OwnInv, OwnersAgree
    <3>3. QED
      BY <3>1, <3>2
  <2>2. ASSUME NEW i \in Slot, op'[i].owner # None
        PROVE  awaits'[op'[i].owner] = i
    <3>1. CASE Stays(t, i)
      BY <1>1, <1>2, <2>2, <3>1 DEF Stays, OwnInv, OwnersAgree, Op
    <3>2. CASE Starts(t, at, i)
      BY <1>3, <3>2 DEF Starts
    <3>3. QED
      BY <1>1, <1>2, <1>4, <2>2, <3>1, <3>2 DEF Ends
  <2>3. ASSUME NEW i \in Slot
        PROVE  /\ op'[i].st \in Results => op'[i].owner # None
               /\ op'[i].st = "free" => op'[i].owner = None
               /\ op'[i].retire <=> op'[i].kind = "cancel"
    <3>1. CASE Stays(t, i)
      BY <3>1 DEF Stays, OwnInv, OwnersAgree
    <3>2. CASE Ends(t, i)
      BY <1>2, <3>2 DEF Ends, Results
    <3>3. CASE Orphan(t, i)
      BY <1>4, <3>3 DEF Orphan, Busy, Results, OwnInv, OwnersAgree
    <3>4. CASE Starts(t, at, i)
      BY <1>3, <3>4, NoneFresh DEF Results
    <3>5. QED
      BY <1>1, <3>1, <3>2, <3>3, <3>4
  <2>4. QED
    BY <2>1, <2>2, <2>3 DEF OwnersAgree
<1>8. AwaitsFit'
  <2>1. ASSUME NEW u \in Task
        PROVE  /\ awaits'[u] # None <=> pc'[u] \in Working
               /\ pc'[u] \in Working => op'[awaits'[u]].kind = KindAt(pc'[u])
               /\ pc'[u] \notin {"cancel", "restartC"} => local'[u] = NoStream
    <3>1. CASE u = t
      BY <1>1, <1>3, <3>1, NoneFresh
    <3>2. CASE u # t
      BY <1>1, <1>6, <3>2 DEF Stays, OwnInv, AwaitsFit
    <3>3. QED
      BY <3>1, <3>2
  <2>2. QED
    BY <2>1 DEF AwaitsFit
<1>9. QED
  BY <1>7, <1>8 DEF OwnInv

(* What the steps of a task do to the streams, the epoch and the mutex.    *)
(* The results it awaited are in, but for a cancel that times out.         *)
Alone(t)    == \A u \in Task : u # t => pc[u] \in {"idle", "lock"}
ResultIn(t) == pc[t] \in Working => op[awaits[t]].st \in Results
LeavesLocal(t) == local' = [local EXCEPT ![t] = NoStream]
NotActive   == mstate' \notin {"active", "finalizing"}

Plain(t, at) ==
  /\ GoesTo(t, at) /\ Alone(t) /\ ResultIn(t)
  /\ pc[t] \notin {"cancel"} \cup Restarting
  /\ at \notin {"cancel"} \cup Restarting
  /\ at \in Uses => stream # NoStream
  /\ at \in Creating => stream = NoStream
  /\ pc[t] \in Creating => op[awaits[t]].st \in Failed
  /\ NotActive \/ mstate' = mstate \/ stream # NoStream
  /\ UNCHANGED <<stream, closed, local, opEpoch, opLock, worker>>

Takes(t) ==
  /\ GoesTo(t, "cancel") /\ Alone(t) /\ pc[t] = "lock" /\ NotActive
  /\ stream # NoStream /\ stream' = NoStream
  /\ local' = [local EXCEPT ![t] = stream]
  /\ UNCHANGED <<closed, opEpoch, opLock, worker>>

Closes(t, at) ==
  /\ GoesTo(t, at) /\ at \in {"idle", "backoff"} /\ Alone(t) /\ ResultIn(t)
  /\ pc[t] \in {"lock", "create"} \cup Uses /\ NotActive
  /\ pc[t] \in Creating => op[awaits[t]].st \in Failed
  /\ CloseStream /\ stream' = NoStream
  /\ UNCHANGED <<local, opEpoch, opLock, worker>>

Claims(t, at) ==
  /\ GoesTo(t, at) /\ at \in {"idle", "feed"} /\ Alone(t)
  /\ pc[t] \in Creating /\ op[awaits[t]].st = "ok"
  /\ stream' = op[awaits[t]].arg
  /\ UNCHANGED <<closed, local, opEpoch, opLock, worker>>

Settles(t, at) ==
  /\ GoesTo(t, at) /\ at \in {"idle", "create"} /\ Alone(t)
  /\ pc[t] = "cancel" /\ NotActive /\ LeavesLocal(t)
  /\ \/ op[awaits[t]].st \in Results /\ closed' = closed \cup {local[t]}
     \/ op[awaits[t]].st = "retired" /\ closed' = closed
     \/ op[awaits[t]].st \in Busy /\ ~HasRestart /\ closed' = closed
  /\ UNCHANGED <<stream, opEpoch, opLock, worker>>

Bumps(t, at) ==
  /\ GoesTo(t, at) /\ Alone(t) /\ opEpoch' = opEpoch + 1
  /\ \/ /\ pc[t] = "cancel" /\ at = "restartC"
        /\ \/ op[awaits[t]].st \in Results /\ UNCHANGED local
           \/ op[awaits[t]].st \in Busy /\ LeavesLocal(t)
     \/ /\ pc[t] = "rebuild" /\ at = "restartR"
        /\ op[awaits[t]].st \in Failed /\ UNCHANGED local
  /\ UNCHANGED <<mstate, stream, closed, opLock, worker>>

Restarts(t, at, ok) ==
  /\ GoesTo(t, at) /\ at \in {"idle", "create", "lastcreate"} /\ Alone(t)
  /\ pc[t] \in Restarting /\ NotActive /\ LeavesLocal(t)
  /\ opLock' = IF ok THEN opLock + 1 ELSE opLock
  /\ worker' = IF ok THEN worker + 1 ELSE worker
  /\ ok \/ faults' = faults + 1
  /\ closed' = closed \cup ({local[t]} \ {NoStream})
  /\ UNCHANGED <<stream, opEpoch>>

WorkStep(t, at) ==
  /\ UNCHANGED <<nstreams, born, lateRestarts, abandons>>
  /\ faults' = faults \/ faults' = faults + 1
  /\ \/ Plain(t, at) \/ (at = "cancel" /\ Takes(t)) \/ Closes(t, at)
     \/ Claims(t, at) \/ Settles(t, at) \/ Bumps(t, at)
     \/ \E ok \in BOOLEAN : Restarts(t, at, ok)

(* Every step with which a task takes the lock is one of those kinds ...   *)
LEMMA EnterKinds ==
  ASSUME TypeOK, HolderInv, OwnInv, NEW t \in Task, Enter(t)
  PROVE  \E at \in PCs : WorkStep(t, at)
<1>1. /\ pc[t] = "lock" /\ lock = None
      /\ UNCHANGED <<opEpoch, opLock, nstreams, born, worker, lateRestarts,
                   faults, abandons>>
  BY DEF Enter, EnterStart, EnterCancel, EnterAccept, EnterPrepare,
         EnterPartial, EnterFinalize, EnterMarkError, Acquire, manager, native
<1>2. Alone(t)
  BY <1>1, NoneFresh DEF HolderInv, Alone
<1>3. ResultIn(t) /\ local[t] = NoStream
  BY <1>1 DEF ResultIn, OwnInv, AwaitsFit, Working
<1>4. ASSUME NEW at \in {"create", "feed", "prepare", "partial", "finalize"},
             Submit(t, at, KindAt(at), Subject(t, at), opLock, opEpoch)
      PROVE  GoesTo(t, at)
  BY <1>1, <1>4 DEF GoesTo, Working
<1>5. ASSUME NEW at \in {"idle", "backoff"}, StopAwaiting(t, at)
      PROVE  GoesTo(t, at)
  BY <1>5 DEF GoesTo
<1>6. ASSUME NEW at \in {"idle", "create", "feed", "prepare", "partial", "finalize"},
             GoesTo(t, at), UNCHANGED <<stream, closed, local>>,
             at \in Uses => stream # NoStream,
             at = "create" => stream = NoStream,
             NotActive \/ mstate' = mstate \/ stream # NoStream
      PROVE  \E at1 \in PCs : WorkStep(t, at1)
  <2>1. Plain(t, at)
    BY <1>1, <1>2, <1>3, <1>6 DEF Plain, Restarting, Creating
  <2>2. {"idle", "create", "feed", "prepare", "partial", "finalize"} \subseteq PCs
    BY DEF PCs
  <2>3. at \in PCs
    BY <1>6, <2>2
  <2>4. QED
    BY <1>1, <2>1, <2>3 DEF WorkStep
<1>7. ASSUME CancelStream(t), stream # NoStream, UNCHANGED closed
      PROVE  \E at1 \in PCs : WorkStep(t, at1)
  <2>1. /\ mstate' = "cancelling" /\ stream' = NoStream
        /\ local' = [local EXCEPT ![t] = stream]
        /\ Submit(t, "cancel", "cancel", stream, opLock', opEpoch')
    BY <1>1, <1>7 DEF CancelStream
  <2>2. Subject(t, "cancel") = stream /\ KindAt("cancel") = "cancel"
    BY <2>1 DEF Subject, KindAt, Creating, TypeOK
  <2>3. GoesTo(t, "cancel")
    BY <2>1, <2>2 DEF GoesTo, Working
  <2>4. Takes(t)
    BY <1>1, <1>2, <1>7, <2>1, <2>3 DEF Takes, NotActive
  <2>5. "cancel" \in PCs
    BY DEF PCs
  <2>6. QED
    BY <1>1, <2>4, <2>5 DEF WorkStep
<1>8. /\ KindAt("create") = "create" /\ Subject(t, "create") = NoStream
      /\ \A at \in Uses : KindAt(at) = at /\ Subject(t, at) = stream'
  BY DEF KindAt, Subject, Creating, Uses
<1>9. CASE EnterStart(t)
  <2>1. UNCHANGED closed
    BY <1>9 DEF EnterStart, native
  <2>2. CASE CancelStream(t) /\ stream # NoStream
    BY <1>7, <2>1, <2>2
  <2>3. CASE /\ ~(mstate \in {"active", "finalizing"} /\ stream # NoStream)
             /\ mstate' = IF mstate \in {"active", "finalizing"} THEN "idle"
                          ELSE mstate
             /\ OpenUtterance(t, opLock, opEpoch)
             /\ UNCHANGED <<stream, local>>
    <3>1. GoesTo(t, "create")
      BY <1>4, <1>8, <2>3 DEF OpenUtterance
    <3>2. stream = NoStream
      BY <2>3 DEF HolderInv, TypeOK, States
    <3>3. QED
      BY <1>6, <2>1, <2>3, <3>1, <3>2 DEF Uses, NotActive
  <2>4. QED
    BY <1>9, <2>2, <2>3 DEF EnterStart
<1>10. CASE EnterCancel(t)
  <2>1. UNCHANGED closed
    BY <1>10 DEF EnterCancel, native
  <2>2. CASE CancelStream(t) /\ stream # NoStream
    BY <1>7, <2>1, <2>2
  <2>3. CASE mstate' = "idle" /\ Return(t) /\ UNCHANGED <<stream, local>>
    <3>1. GoesTo(t, "idle")
      BY <1>5, <2>3 DEF Return
    <3>2. QED
      BY <1>6, <2>1, <2>3, <3>1 DEF Uses, NotActive
  <2>4. QED
    BY <1>10, <2>2, <2>3 DEF EnterCancel
<1>11. CASE EnterAccept(t) \/ EnterPrepare(t) \/ EnterPartial(t)
  <2>1. UNCHANGED <<mstate, stream, closed, local>>
    BY <1>11 DEF EnterAccept, EnterPrepare, EnterPartial, manager, native
  <2>2. \/ Return(t)
        \/ /\ stream = NoStream
           /\ Submit(t, "create", "create", NoStream, opLock, opEpoch)
        \/ \E at \in {"feed", "prepare", "partial"} :
             stream # NoStream /\ Submit(t, at, at, stream, opLock, opEpoch)
    BY <1>11 DEF EnterAccept, EnterPrepare, EnterPartial
  <2>3. \/ GoesTo(t, "idle")
        \/ stream = NoStream /\ GoesTo(t, "create")
        \/ \E at \in {"feed", "prepare", "partial"} :
             stream # NoStream /\ GoesTo(t, at)
    BY <1>4, <1>5, <1>8, <2>1, <2>2 DEF Return, Uses
  <2>4. QED
    BY <1>6, <2>1, <2>3 DEF Uses
<1>12. CASE EnterFinalize(t)
  <2>1. UNCHANGED <<stream, closed, local>>
    BY <1>12 DEF EnterFinalize, native
  <2>2. \/ Return(t) /\ mstate' \in {mstate, "idle"}
        \/ /\ stream # NoStream
           /\ Submit(t, "finalize", "finalize", stream, opLock, opEpoch)
    BY <1>12 DEF EnterFinalize
  <2>3. \/ GoesTo(t, "idle") /\ mstate' \in {mstate, "idle"}
        \/ stream # NoStream /\ GoesTo(t, "finalize")
    BY <1>4, <1>5, <1>8, <2>1, <2>2 DEF Return, Uses
  <2>4. QED
    BY <1>6, <2>1, <2>3 DEF Uses, NotActive
<1>13. CASE EnterMarkError(t)
  <2>1. /\ HandleError(t) /\ UNCHANGED local
    BY <1>13 DEF EnterMarkError
  <2>2. GoesTo(t, "backoff")
    BY <1>5, <2>1 DEF HandleError
  <2>3. Closes(t, "backoff")
    BY <1>1, <1>2, <1>3, <2>1, <2>2 DEF Closes, HandleError, NotActive,
       Creating
  <2>4. "backoff" \in PCs
    BY DEF PCs, Rebuilding
  <2>5. QED
    BY <1>1, <2>3, <2>4 DEF WorkStep
<1>14. QED
  BY <1>9, <1>10, <1>11, <1>12, <1>13 DEF Enter

(* ... and so is every step with which the lock holder goes on.            *)
LEMMA ContinueKinds ==
  ASSUME TypeOK, HolderInv, OwnInv, NEW t \in Task, Continue(t)
  PROVE  \E at \in PCs : WorkStep(t, at)
<1> DEFINE Goal == \E at \in PCs : WorkStep(t, at)
<1>1. ASSUME pc[t] \notin {"idle", "lock"}
      PROVE  Alone(t) /\ lock = t
  BY <1>1 DEF HolderInv, Alone
<1>2. ASSUME NEW at \in Creating, opLock' = opLock, opEpoch' = opEpoch,
             Submit(t, at, "create", NoStream, opLock, opEpoch)
      PROVE  GoesTo(t, at)
  BY <1>2 DEF GoesTo, Working, Creating, KindAt, Subject
<1>3. ASSUME NEW at \in {"idle", "backoff", "restartC", "restartR"},
             StopAwaiting(t, at)
      PROVE  GoesTo(t, at)
  BY <1>3 DEF GoesTo, Restarting
<1>4. ASSUME NEW R, NEW at, Resume(t, at, R)
      PROVE  pc[t] = at /\ awaits[t] # None /\ op[awaits[t]].st \in R
  BY <1>4 DEF Resume
<1>5. ASSUME NEW at \in {"idle", "create", "backoff", "rebuild", "lastcreate"},
             GoesTo(t, at), ResultIn(t), UNCHANGED <<stream, closed, local>>,
             pc[t] \notin {"idle", "lock", "cancel", "restartC", "restartR"},
             NotActive \/ mstate' = mstate,
             at \in Creating => stream = NoStream,
             pc[t] \in Creating => op[awaits[t]].st \in Failed,
             UNCHANGED <<opEpoch, opLock, nstreams, born, worker, lateRestarts, faults, abandons>>
      PROVE  Goal
  <2>1. Plain(t, at)
    BY <1>1, <1>5 DEF Plain, Restarting, Uses
  <2>2. {"idle", "create"} \subseteq PCs
    BY DEF PCs
  <2>3. {"backoff", "rebuild", "lastcreate"} \subseteq PCs
    BY DEF PCs, Rebuilding
  <2>4. at \in PCs
    BY <1>5, <2>2, <2>3
  <2>5. QED
    BY <1>5, <2>1, <2>4 DEF WorkStep
<1>6. ASSUME CloseStream, stream' = NoStream, NotActive,
             NEW at \in {"idle", "backoff"}, StopAwaiting(t, at), ResultIn(t),
             pc[t] \in {"create"} \cup Uses,
             pc[t] \in Creating => op[awaits[t]].st \in Failed,
             UNCHANGED <<local, opEpoch, opLock, nstreams, born, worker,
                         lateRestarts, faults, abandons>>
      PROVE  Goal
  <2>1. Closes(t, at)
    BY <1>1, <1>3, <1>6 DEF Closes, Uses
  <2>2. at \in PCs
    BY DEF PCs, Rebuilding
  <2>3. QED
    BY <1>6, <2>1, <2>2 DEF WorkStep
<1>7. ASSUME NEW at \in {"create", "rebuild", "lastcreate"}, Resume(t, at, {"ok"}),
             stream' = Outcome(t).arg, NEW at1 \in {"idle", "feed"}, GoesTo(t, at1),
             UNCHANGED <<closed, local, opEpoch, opLock, nstreams, born, worker,
                         lateRestarts, faults, abandons>>
      PROVE  Goal
  <2>1. Claims(t, at1)
    BY <1>1, <1>4, <1>7 DEF Claims, Creating, Outcome
  <2>2. at1 \in PCs
    BY DEF PCs, Rebuilding
  <2>3. QED
    BY <1>7, <2>1, <2>2 DEF WorkStep
<1>8. ASSUME NEW m, NEW e, AfterCancel(t, m, e), opLock' = m, opEpoch' = e
      PROVE  NotActive /\ (GoesTo(t, "idle") \/ GoesTo(t, "create"))
  <2>1. NotActive
    BY <1>8 DEF AfterCancel, CancelEnds, NotActive
  <2>2. \/ StopAwaiting(t, "idle")
        \/ Submit(t, "create", "create", NoStream, opLock', opEpoch')
    BY <1>8 DEF AfterCancel, Return, OpenUtterance
  <2>3. QED
    BY <1>3, <2>1, <2>2 DEF GoesTo, Working, Creating, KindAt, Subject
<1>9. ASSUME pc[t] = "cancel", LeavesLocal(t), AfterCancel(t, opLock, opEpoch),
             \/ op[awaits[t]].st \in Results /\ closed' = closed \cup {local[t]}
             \/ op[awaits[t]].st = "retired" /\ closed' = closed
             \/ op[awaits[t]].st \in Busy /\ ~HasRestart /\ closed' = closed,
             UNCHANGED <<stream, opEpoch, opLock, nstreams, born, worker,
                         lateRestarts, faults, abandons>>
      PROVE  Goal
  <2>1. PICK at \in {"idle", "create"} : NotActive /\ GoesTo(t, at)
    BY <1>8, <1>9
  <2>2. Settles(t, at)
    BY <1>1, <1>9, <2>1 DEF Settles
  <2>3. at \in PCs
    BY DEF PCs, Rebuilding
  <2>4. QED
    BY <1>9, <2>2, <2>3 DEF WorkStep
<1>10. CASE Created(t)
  <2>1. /\ Resume(t, "create", {"ok"}) /\ stream' = Outcome(t).arg
        /\ UNCHANGED <<closed, local, opEpoch, opLock, nstreams, born, worker,
                       lateRestarts, faults, abandons>>
    BY <1>10 DEF Created, native
  <2>2. \/ StopAwaiting(t, "idle")
        \/ Submit(t, "feed", "feed", stream', opLock', opEpoch')
    BY <1>10, <2>1 DEF Created, Return
  <2>3. GoesTo(t, "idle") \/ GoesTo(t, "feed")
    BY <1>3, <2>2 DEF GoesTo, Working, Creating, KindAt, Subject
  <2>4. QED
    BY <1>7, <2>1, <2>3
<1>11. CASE Used(t)
  <2>1. /\ pc[t] \in {"feed", "prepare", "partial"}
        /\ op[awaits[t]].st \in {"ok"} \cup Failed
        /\ StopAwaiting(t, "idle")
        /\ UNCHANGED <<mstate, stream, closed, local, opEpoch, opLock, nstreams,
                       born, worker, lateRestarts, faults, abandons>>
    BY <1>4, <1>11 DEF Used, Return, manager, native
  <2>2. ResultIn(t)
    BY <2>1 DEF ResultIn, Results, Failed
  <2>3. QED
    BY <1>3, <1>5, <2>1, <2>2 DEF Creating
<1>12. CASE Finalized(t)
  <2>1. /\ pc[t] = "finalize" /\ op[awaits[t]].st = "ok"
        /\ StopAwaiting(t, "idle")
        /\ UNCHANGED <<local, opEpoch, opLock, nstreams, born, worker,
                       lateRestarts, faults, abandons>>
        /\ \/ UNCHANGED <<closed, stream, mstate>>
           \/ CloseStream /\ stream' = NoStream /\ mstate' = "idle"
    BY <1>4, <1>12 DEF Finalized, Return
  <2>2. ResultIn(t)
    BY <2>1 DEF ResultIn, Results
  <2>3. CASE UNCHANGED <<closed, stream, mstate>>
    BY <1>3, <1>5, <2>1, <2>2, <2>3 DEF Creating
  <2>4. CASE CloseStream /\ stream' = NoStream /\ mstate' = "idle"
    BY <1>6, <2>1, <2>2, <2>4 DEF Uses, NotActive, Creating
  <2>5. QED
    BY <2>1, <2>3, <2>4
<1>13. CASE OpFailed(t)
  <2>1. /\ pc[t] \in {"create", "feed", "prepare", "finalize"}
        /\ op[awaits[t]].st \in Failed
        /\ StopAwaiting(t, "backoff") /\ CloseStream /\ stream' = NoStream
        /\ mstate' = "error_rebuild"
        /\ UNCHANGED <<local, opEpoch, opLock, nstreams, born, worker,
                       lateRestarts, faults, abandons>>
    BY <1>4, <1>13 DEF OpFailed, HandleError
  <2>2. ResultIn(t)
    BY <2>1 DEF ResultIn, Results, Failed
  <2>3. QED
    BY <1>6, <2>1, <2>2 DEF Uses, NotActive
<1>14. CASE CancelAcked(t)
  <2>1. /\ pc[t] = "cancel" /\ op[awaits[t]].st \in {"ok", "error", "retired"}
        /\ AfterCancel(t, opLock, opEpoch) /\ LeavesLocal(t)
        /\ closed' = IF op[awaits[t]].st = "retired" THEN closed
                     ELSE closed \cup {local[t]}
        /\ UNCHANGED <<stream, opEpoch, opLock, nstreams, born, worker,
                       lateRestarts, faults, abandons>>
    BY <1>4, <1>14 DEF CancelAcked, Outcome, LeavesLocal
  <2>2. QED
    BY <1>9, <2>1 DEF Results
<1>15. ASSUME CancelRaised(t) \/ CancelTimedOut(t), HasRestart
       PROVE  Goal
  <2>1. /\ pc[t] = "cancel" /\ opEpoch' = opEpoch + 1
        /\ StopAwaiting(t, "restartC")
        /\ \/ op[awaits[t]].st \in Results /\ UNCHANGED local
           \/ op[awaits[t]].st \in Busy /\ LeavesLocal(t)
        /\ UNCHANGED <<mstate, stream, closed, opLock, nstreams, born, worker,
                       lateRestarts, faults, abandons>>
    BY <1>4, <1>15 DEF CancelRaised, CancelTimedOut, NeverToClose, LeavesLocal,
       native, Results, Busy, Outcome
  <2>2. Bumps(t, "restartC")
    BY <1>1, <1>3, <2>1 DEF Bumps
  <2>3. "restartC" \in PCs
    BY DEF PCs
  <2>4. QED
    BY <2>1, <2>2, <2>3 DEF WorkStep
<1>16. ASSUME CancelRaised(t) \/ CancelTimedOut(t), ~HasRestart
       PROVE  Goal
  <2>1. /\ pc[t] = "cancel" /\ AfterCancel(t, opLock, opEpoch)
        /\ LeavesLocal(t)
        /\ \/ op[awaits[t]].st \in Results /\ closed' = closed \cup {local[t]}
           \/ op[awaits[t]].st \in Busy /\ closed' = closed
        /\ UNCHANGED <<stream, opEpoch, opLock, nstreams, born, worker,
                       lateRestarts, faults, abandons>>
    BY <1>4, <1>16 DEF CancelRaised, CancelTimedOut, NeverToClose, LeavesLocal,
       native, Results, Busy, Outcome
  <2>2. QED
    BY <1>9, <1>16, <2>1
<1>17. CASE \E ok \in BOOLEAN : CancelRestarted(t, ok) \/ RebuildRestarted(t, ok)
  <2>1. PICK ok \in BOOLEAN : CancelRestarted(t, ok) \/ RebuildRestarted(t, ok)
    BY <1>17
  <2>2. CASE CancelRestarted(t, ok)
    <3>1. /\ pc[t] = "restartC" /\ AfterCancel(t, opLock', opEpoch)
          /\ LeavesLocal(t) /\ closed' = closed \cup ({local[t]} \ {NoStream})
          /\ opLock' = IF ok THEN opLock + 1 ELSE opLock
          /\ worker' = IF ok THEN worker + 1 ELSE worker
          /\ faults' = IF ok THEN faults ELSE faults + 1
          /\ UNCHANGED <<stream, opEpoch, nstreams, born, lateRestarts, abandons>>
      BY <2>2 DEF CancelRestarted, RestartReturned, LeavesLocal
    <3>2. PICK at \in {"idle", "create"} : NotActive /\ GoesTo(t, at)
      BY <1>8, <3>1
    <3>3. ok \/ faults' = faults + 1
      BY <3>1 DEF TypeOK
    <3>4. Restarts(t, at, ok)
      BY <1>1, <3>1, <3>2, <3>3 DEF Restarts, Restarting
    <3>5. at \in PCs
      BY DEF PCs, Rebuilding
    <3>6. QED
      BY <3>1, <3>4, <3>5 DEF WorkStep
  <2>3. CASE RebuildRestarted(t, ok)
    <3>1. /\ pc[t] = "restartR"
          /\ Submit(t, "lastcreate", "create", NoStream, opLock', opEpoch)
          /\ opLock' = IF ok THEN opLock + 1 ELSE opLock
          /\ worker' = IF ok THEN worker + 1 ELSE worker
          /\ faults' = IF ok THEN faults ELSE faults + 1
          /\ UNCHANGED <<mstate, stream, closed, local, opEpoch, nstreams, born,
                         lateRestarts, abandons>>
      BY <2>3 DEF RebuildRestarted, RestartReturned
    <3>2. GoesTo(t, "lastcreate")
      BY <3>1 DEF GoesTo, Working, Creating, KindAt, Subject
    <3>3. mstate = "error_rebuild" /\ local[t] = NoStream
      BY <3>1 DEF HolderInv, Rebuilding, OwnInv, AwaitsFit
    <3>4. LeavesLocal(t)
      BY <3>1, <3>3 DEF LeavesLocal, TypeOK
    <3>5. ok \/ faults' = faults + 1
      BY <3>1 DEF TypeOK
    <3>6. Restarts(t, "lastcreate", ok)
      BY <1>1, <3>1, <3>2, <3>3, <3>4, <3>5 DEF Restarts, Restarting, NotActive
    <3>7. "lastcreate" \in PCs
      BY DEF PCs, Rebuilding
    <3>8. QED
      BY <3>1, <3>6, <3>7 DEF WorkStep
  <2>4. QED
    BY <2>1, <2>2, <2>3
<1>18. CASE BackoffEnds(t)
  <2>1. /\ pc[t] = "backoff"
        /\ Submit(t, "rebuild", "create", NoStream, opLock, opEpoch)
        /\ UNCHANGED <<mstate, stream, closed, local, opEpoch, opLock, nstreams,
                       born, worker, lateRestarts, faults, abandons>>
    BY <1>18 DEF BackoffEnds, manager, native
  <2>2. ResultIn(t)
    BY <2>1 DEF ResultIn, Working
  <2>3. GoesTo(t, "rebuild")
    BY <1>2, <2>1 DEF Creating
  <2>4. stream = NoStream /\ pc[t] \notin Creating
    BY <2>1 DEF HolderInv, Rebuilding, Creating
  <2>5. QED
    BY <1>5, <2>1, <2>2, <2>3, <2>4
<1>19. CASE Rebuilt(t)
  <2>1. /\ \E at \in {"rebuild", "lastcreate"} : Resume(t, at, {"ok"})
        /\ stream' = Outcome(t).arg
        /\ StopAwaiting(t, "idle")
        /\ UNCHANGED <<closed, local, opEpoch, opLock, nstreams, born, worker,
                       lateRestarts, faults, abandons>>
    BY <1>19 DEF Rebuilt, Return, native
  <2>2. GoesTo(t, "idle")
    BY <1>3, <2>1
  <2>3. QED
    BY <1>7, <2>1, <2>2
<1>20. CASE RebuildFailed(t)
  <2>1. /\ pc[t] = "rebuild" /\ op[awaits[t]].st \in Failed
        /\ UNCHANGED <<mstate, stream, closed, local, opLock, nstreams, born,
                       worker, lateRestarts, faults, abandons>>
    BY <1>4, <1>20 DEF RebuildFailed, native
  <2>2. ResultIn(t)
    BY <2>1 DEF ResultIn, Results, Failed
  <2>3. CASE StopAwaiting(t, "backoff") /\ UNCHANGED opEpoch
    BY <1>3, <1>5, <2>1, <2>2, <2>3 DEF Creating
  <2>4. CASE opEpoch' = opEpoch + 1 /\ StopAwaiting(t, "restartR")
    <3>1. Bumps(t, "restartR")
      BY <1>1, <1>3, <2>1, <2>4 DEF Bumps
    <3>2. "restartR" \in PCs
      BY DEF PCs, Rebuilding
    <3>3. QED
      BY <2>1, <3>1, <3>2 DEF WorkStep
  <2>5. CASE /\ Submit(t, "lastcreate", "create", NoStream, opLock, opEpoch)
             /\ UNCHANGED opEpoch
    <3>1. GoesTo(t, "lastcreate")
      BY <1>2, <2>1, <2>5 DEF Creating
    <3>2. stream = NoStream
      BY <2>1 DEF HolderInv, Rebuilding
    <3>3. QED
      BY <1>5, <2>1, <2>2, <2>5, <3>1, <3>2
  <2>6. QED
    BY <1>20, <2>3, <2>4, <2>5 DEF RebuildFailed
<1>21. CASE RebuildExhausted(t)
  <2>1. /\ pc[t] = "lastcreate" /\ op[awaits[t]].st \in Failed
        /\ mstate' = "idle" /\ StopAwaiting(t, "idle")
        /\ UNCHANGED <<stream, closed, local, opEpoch, opLock, nstreams, born,
                       worker, lateRestarts, faults, abandons>>
    BY <1>4, <1>21 DEF RebuildExhausted, GiveUp, Return, native
  <2>2. ResultIn(t)
    BY <2>1 DEF ResultIn, Results, Failed
  <2>3. QED
    BY <1>3, <1>5, <2>1, <2>2 DEF NotActive, Creating
<1>22. CASE CancelRaised(t) \/ CancelTimedOut(t)
  BY <1>15, <1>16, <1>22
<1>23. QED
  BY <1>10, <1>11, <1>12, <1>13, <1>14, <1>17, <1>18, <1>19, <1>20,
     <1>21, <1>22 DEF Continue

(* What a step of a task leaves of the operations: those nobody awaits, at *)
(* most the cancel it has just given up, and the one it starts.            *)
Same(o, p) == /\ p.kind = o.kind /\ p.arg = o.arg /\ p.mutex = o.mutex
              /\ p.epoch = o.epoch /\ p.st = o.st /\ p.inc = o.inc
Outlives(j) ==
  op[j].st \in Busy /\ op'[j].owner = None /\ Same(op[j], op'[j])
GivenUp(t, j) ==
  /\ op[j].owner = None \/ (pc[t] = "cancel" /\ j = awaits[t] /\ LeavesLocal(t))
  /\ Outlives(j)

(* Only the lock holder awaits an operation, so its step leaves nothing    *)
(* else that is awaited, and no result.                                    *)
LEMMA WorkOps ==
  ASSUME TypeOK, HolderInv, OwnInv, NEW t \in Task, NEW at \in PCs,
         WorkStep(t, at)
  PROVE  /\ GoesTo(t, at) /\ Alone(t)
         /\ \A u \in Task : u # t => /\ awaits'[u] = awaits[u]
                                     /\ pc'[u] = pc[u] /\ local'[u] = local[u]
         /\ pc'[t] = at
         /\ at \in Working => awaits'[t] \in Slot /\ Starts(t, at, awaits'[t])
         /\ \A j \in Slot : \/ op'[j].st = "free" \/ GivenUp(t, j)
                            \/ Starts(t, at, j)
<1>1. GoesTo(t, at) /\ Alone(t)
  BY DEF WorkStep, Plain, Takes, Closes, Claims, Settles, Bumps, Restarts
<1>2. ASSUME NEW u \in Task, u # t
      PROVE  local'[u] = local[u]
  BY <1>2 DEF WorkStep, Plain, Takes, Closes, Claims, Settles, Bumps,
              Restarts, LeavesLocal, TypeOK
<1>3. ASSUME NEW j \in Slot, Stays(t, j)
      PROVE  op'[j].st = "free" \/ GivenUp(t, j)
  <2>1. op[j].owner = None
    <3>1. SUFFICES ASSUME op[j].owner # None
                   PROVE  FALSE
      OBVIOUS
    <3>2. op[j].owner \in Task /\ op[j].owner # t
      BY <1>3, <3>1 DEF Stays, TypeOK, Op
    <3>3. awaits[op[j].owner] # None
      BY <3>1, NoneFresh DEF OwnInv, OwnersAgree
    <3>4. pc[op[j].owner] \in {"idle", "lock"} \cap Working
      BY <1>1, <3>2, <3>3 DEF Alone, OwnInv, AwaitsFit
    <3>5. QED
      BY <3>4 DEF Working
  <2>2. op[j].st \notin Results
    BY <2>1 DEF OwnInv, OwnersAgree
  <2>3. op[j].st \in Busy \cup {"free"}
    BY <2>2 DEF TypeOK, Op, Busy
  <2>4. QED
    BY <1>3, <2>1, <2>3 DEF Stays, GivenUp, Outlives, Same
<1>4. ASSUME NEW j \in Slot, Orphan(t, j)
      PROVE  GivenUp(t, j)
  <2>1. pc[t] \in Working /\ op[awaits[t]].st \in Busy
    BY <1>4, NoneFresh DEF Orphan, OwnInv, AwaitsFit
  <2>2. op[awaits[t]].st \notin Results \cup {"ok", "retired"} \cup Failed
    BY <2>1 DEF Busy, Results, Failed
  <2>3. pc[t] = "cancel" /\ LeavesLocal(t)
    BY <2>1, <2>2 DEF WorkStep, Plain, Takes, Closes, Claims, Settles, Bumps,
                      Restarts, ResultIn, Working, Restarting
  <2>4. op[j] \in Op
    BY DEF TypeOK
  <2>5. QED
    BY <1>4, <2>3, <2>4 DEF Orphan, GivenUp, Outlives, Same, Op
<1>5. ASSUME NEW j \in Slot, Ends(t, j)
      PROVE  op'[j].st = "free"
  BY <1>5 DEF Ends, NoOp
<1>6. QED
  BY <1>1, <1>2, <1>3, <1>4, <1>5, OpsAfter

(* The owners stay straight through the steps of the lock holder.          *)
LEMMA WorkOwn ==
  ASSUME TypeOK, HolderInv, OwnInv, NEW t \in Task, NEW at \in PCs,
         WorkStep(t, at)
  PROVE  OwnInv'
<1>1. GoesTo(t, at) /\ \A u \in Task : u # t => local'[u] = local[u]
  BY WorkOps
<1>2. ASSUME at \notin {"cancel", "restartC"}
      PROVE  local'[t] = NoStream
  <2>1. \/ UNCHANGED local /\ pc[t] \notin {"cancel", "restartC"}
        \/ LeavesLocal(t)
    BY <1>2 DEF WorkStep, Plain, Takes, Closes, Claims, Settles, Bumps,
                Restarts, Restarting, Creating, Uses
  <2>2. QED
    BY <2>1 DEF OwnInv, AwaitsFit, LeavesLocal, TypeOK
<1>3. QED
  BY <1>1, <1>2, GoesToOwn

(* A task that is cancelled at its await only leaves things behind.        *)
Lets(t) ==
  /\ pc'[t] = "idle" /\ awaits'[t] = None /\ local'[t] = NoStream
  /\ \A u \in Task : u # t => /\ awaits'[u] = awaits[u] /\ pc'[u] = pc[u]
                              /\ local'[u] = local[u]
  /\ \A j \in Slot : \/ op'[j] = op[j] \/ op'[j] = NoOp
                     \/ Outlives(j)
  /\ abandons' = abandons + 1
  /\ UNCHANGED <<mstate, stream, closed, opEpoch, opLock, nstreams, worker,
                 born, faults>>

(* A task that is given up at an await does no more than that.             *)
LEMMA AbandonLets ==
  ASSUME TypeOK, OwnInv, NEW t \in Task, Abandon(t)
  PROVE  Lets(t) /\ OwnInv'
<1>1. GoesTo(t, "idle")
  BY DEF Abandon, GoesTo
<1>2. /\ \A u \in Task : u # t => local'[u] = local[u]
      /\ local'[t] = NoStream
  BY DEF Abandon, TypeOK
<1>3. OwnInv'
  BY <1>1, <1>2, GoesToOwn
<1>4. /\ \A j \in Slot : Stays(t, j) \/ Ends(t, j) \/ Orphan(t, j)
      /\ \A u \in Task : u # t => awaits'[u] = awaits[u] /\ pc'[u] = pc[u]
      /\ pc'[t] = "idle" /\ awaits'[t] = None
  BY <1>1, OpsAfter DEF Starts, Working
<1>5. ASSUME NEW j \in Slot, Orphan(t, j)
      PROVE  Outlives(j)
  <2>1. op[j] \in Op
    BY DEF TypeOK
  <2>2. QED
    BY <1>5, <2>1 DEF Orphan, Outlives, Same, Op
<1>6. QED
  BY <1>2, <1>3, <1>4, <1>5 DEF Lets, Abandon, Stays, Ends, manager

(* The steps of the thread in slot i.                                      *)
Births(i)  == /\ op[i].kind = "create" /\ op[i].st = "running"
              /\ nstreams' = nstreams + 1
              /\ born' = Append(born, op[i].inc)
NoBirth    == UNCHANGED <<nstreams, born>>
Runs(i)    == /\ op[i].st = "queued" /\ MutexFree(op[i].mutex) /\ ~Retired(i)
              /\ op' = [op EXCEPT ![i] =
                          [@ EXCEPT !.st = "running", !.inc = worker]]
Retires(i) == /\ op[i].st = "queued" /\ op[i].owner # None /\ Retired(i)
              /\ op' = [op EXCEPT ![i] = [@ EXCEPT !.st = "retired"]]
Vanishes(i) == /\ op[i].st \in Busy /\ op[i].owner = None
               /\ op' = [op EXCEPT ![i] = NoOp]
Fails(i)   == /\ op[i].st = "running" /\ op[i].owner # None
              /\ faults' = faults + 1
              /\ \E res \in Failed :
                   op' = [op EXCEPT ![i] = [@ EXCEPT !.st = res]]
Returns(i) == /\ op[i].st = "running" /\ op[i].owner # None
              /\ op[i].kind # "create"
              /\ op' = [op EXCEPT ![i] = [@ EXCEPT !.st = "ok"]]
Creates(i) == /\ op[i].owner # None
              /\ op' = [op EXCEPT ![i] = [@ EXCEPT !.st = "ok",
                                            !.arg = nstreams + 1]]

ThreadStep(i) ==
  /\ UNCHANGED <<mstate, stream, opEpoch, opLock, tasks, closed, worker,
                 lateRestarts, abandons>>
  /\ faults' = faults \/ faults' = faults + 1
  /\ \/ NoBirth /\ (Runs(i) \/ Retires(i) \/ Vanishes(i) \/ Fails(i)
                     \/ Returns(i))
     \/ Births(i) /\ (Vanishes(i) \/ Creates(i))

(* Every step of an executor thread is one of those.                       *)
LEMMA ThreadKinds ==
  ASSUME TypeOK, NEW i \in Slot, ThreadNext(i)
  PROVE  ThreadStep(i)
<1>1. CASE StartOp(i)
  <2>1. Runs(i) \/ Retires(i) \/ Vanishes(i)
    BY <1>1 DEF StartOp, Runs, Retires, Vanishes, Busy
  <2>2. QED
    BY <1>1, <2>1 DEF StartOp, ThreadStep, NoBirth, manager, native
<1>2. CASE DropOp(i)
  BY <1>2 DEF DropOp, ThreadStep, Vanishes, Busy, NoBirth, manager, native
<1>3. CASE \E res \in {"ok"} \cup Failed : FinishOp(i, res)
  <2>1. PICK res \in {"ok"} \cup Failed : FinishOp(i, res)
    BY <1>3
  <2> DEFINE creates == op[i].kind = "create" /\ res = "ok"
  <2>2. /\ op[i].st = "running"
        /\ nstreams' = IF creates THEN nstreams + 1 ELSE nstreams
        /\ born' = IF creates THEN Append(born, op[i].inc) ELSE born
        /\ op' = [op EXCEPT ![i] =
                    IF op[i].owner = None THEN NoOp
                    ELSE [op[i] EXCEPT !.st = res,
                            !.arg = IF creates THEN nstreams + 1 ELSE op[i].arg]]
        /\ faults' = IF res \in Failed THEN faults + 1 ELSE faults
        /\ UNCHANGED <<mstate, stream, opEpoch, opLock, tasks, closed, worker,
                       lateRestarts, abandons>>
    BY <2>1 DEF FinishOp, manager
  <2>3. op[i] \in Op
    BY DEF TypeOK
  <2>4. CASE op[i].owner = None
    BY <2>2, <2>4 DEF ThreadStep, Vanishes, NoBirth, Births, Busy
  <2>5. CASE op[i].owner # None /\ creates
    BY <2>2, <2>5 DEF ThreadStep, Births, Creates, Failed
  <2>6. CASE op[i].owner # None /\ ~creates
    <3>1. [op[i] EXCEPT !.st = res, !.arg = op[i].arg]
            = [op[i] EXCEPT !.st = res]
      BY <2>3 DEF Op
    <3>2. op' = [op EXCEPT ![i] = [op[i] EXCEPT !.st = res]]
      BY <2>2, <2>6, <3>1
    <3>3. NoBirth
      BY <2>2, <2>6 DEF NoBirth
    <3>4. CASE res = "ok"
      BY <2>2, <2>6, <3>2, <3>3, <3>4 DEF ThreadStep, Returns, Failed
    <3>5. CASE res \in Failed
      BY <2>2, <2>6, <3>2, <3>3, <3>5 DEF ThreadStep, Fails
    <3>6. QED
      BY <2>1, <3>4, <3>5
  <2>7. QED
    BY <2>4, <2>5, <2>6
<1>4. QED
  BY <1>1, <1>2, <1>3 DEF ThreadNext

(* ... seen from the operations.                                           *)
LEMMA ThreadOps ==
  ASSUME TypeOK, NEW i \in Slot, ThreadStep(i)
  PROVE  /\ \A j \in Slot : j # i => op'[j] = op[j]
         /\ op[i].st \in Busy
         /\ \/ op'[i] = NoOp /\ op[i].owner = None
            \/ /\ op'[i].owner = op[i].owner /\ op'[i].kind = op[i].kind
               /\ op'[i].mutex = op[i].mutex /\ op'[i].epoch = op[i].epoch
               /\ op'[i].retire = op[i].retire
               /\ \/ /\ op'[i].st = "running" /\ op'[i].arg = op[i].arg
                     /\ op'[i].inc = worker /\ Runs(i) /\ NoBirth
                  \/ /\ op'[i].st = "retired" /\ op'[i].arg = op[i].arg
                     /\ Retires(i) /\ NoBirth
                  \/ /\ op'[i].st \in {"ok"} \cup Failed /\ op[i].owner # None
                     /\ op'[i].kind = "create" => op'[i].st # "ok"
                     /\ op'[i].st \in Failed => faults' = faults + 1
                     /\ op'[i].arg = op[i].arg /\ NoBirth
                  \/ /\ op'[i].st = "ok" /\ op[i].owner # None
                     /\ op'[i].arg = nstreams + 1 /\ Births(i)
<1>1. op[i] \in Op /\ op \in [Slot -> Op]
  BY DEF TypeOK
<1>2. op[i].st \in Busy /\ \A j \in Slot : j # i => op'[j] = op[j]
  BY <1>1 DEF ThreadStep, Runs, Retires, Vanishes, Fails, Returns, Creates,
              Births, Busy
<1>3. CASE Vanishes(i)
  BY <1>1, <1>2, <1>3 DEF Vanishes
<1>4. CASE NoBirth /\ Runs(i)
  BY <1>1, <1>2, <1>4 DEF Runs, Op
<1>5. CASE NoBirth /\ Retires(i)
  BY <1>1, <1>2, <1>5 DEF Retires, Op
<1>6. CASE NoBirth /\ Fails(i)
  <2>1. PICK res \in Failed : op' = [op EXCEPT ![i] = [@ EXCEPT !.st = res]]
    BY <1>6 DEF Fails
  <2>2. res # "ok"
    BY DEF Failed
  <2>3. QED
    BY <1>1, <1>2, <1>6, <2>1, <2>2 DEF Fails, Op
<1>7. CASE NoBirth /\ Returns(i)
  BY <1>1, <1>2, <1>7 DEF Returns, Op, Failed
<1>8. CASE Births(i) /\ Creates(i)
  BY <1>1, <1>2, <1>8 DEF Creates, Op
<1>9. QED
  BY <1>3, <1>4, <1>5, <1>6, <1>7, <1>8 DEF ThreadStep

(* The owners stay straight through the steps of a thread.                 *)
LEMMA ThreadOwn ==
  ASSUME TypeOK, OwnInv, NEW i \in Slot, ThreadStep(i)
  PROVE  OwnInv'
<1>1. UNCHANGED <<awaits, pc, local>>
  BY DEF ThreadStep, tasks
<1>2. /\ \A j \in Slot : j # i => op'[j] = op[j]
      /\ op[i].st \in Busy
      /\ \/ op'[i] = NoOp /\ op[i].owner = None
         \/ /\ op'[i].owner = op[i].owner /\ op'[i].kind = op[i].kind
            /\ op'[i].retire = op[i].retire /\ op'[i].st # "free"
            /\ op'[i].st \in Results => op[i].owner # None
  BY ThreadOps DEF Retires, Failed, Results
<1>3. NoOp.owner = None /\ NoOp.st = "free" /\ NoOp.kind # "cancel"
      /\ ~NoOp.retire /\ "free" \notin Results
  BY DEF NoOp, Results
<1>4. ASSUME NEW t \in Task, awaits[t] # None
      PROVE  awaits[t] \in Slot /\ op'[awaits[t]].owner = t
                                /\ op'[awaits[t]].kind = op[awaits[t]].kind
  <2>1. awaits[t] \in Slot /\ op[awaits[t]].owner = t /\ t # None
    BY <1>4, NoneFresh DEF TypeOK, OwnInv, OwnersAgree
  <2>2. QED
    BY <1>2, <2>1
<1>5. OwnersAgree'
  BY <1>1, <1>2, <1>3, <1>4 DEF OwnInv, OwnersAgree
<1>6. AwaitsFit'
  BY <1>1, <1>4 DEF OwnInv, AwaitsFit
<1>7. QED
  BY <1>5, <1>6 DEF OwnInv

(* The streams.  The manager's stream is open and no task is closing it;   *)
(* an operation in the executor is on an existing stream, and under the    *)
(* published mutex when it is on the manager's; a stream whose creation    *)
(* has just been reported is known to nobody else.                         *)
StreamsFit ==
  /\ stream \in 0 .. nstreams /\ closed \subseteq 1 .. nstreams
  /\ stream \notin closed
  /\ mstate \in {"active", "finalizing"} => stream # NoStream
  /\ \A t \in Task : /\ local[t] \in 0 .. nstreams
                     /\ local[t] = stream => local[t] = NoStream
                     /\ pc[t] \in Creating => stream = NoStream
ArgsFit ==
  /\ \A t \in Task :
       /\ pc[t] = "cancel" => /\ local[t] # NoStream
                              /\ op[awaits[t]].arg = local[t]
       /\ pc[t] \in Uses => op[awaits[t]].arg = stream
  /\ \A i \in Slot : op[i].st \in Busy =>
       /\ op[i].arg \in 0 .. nstreams
       /\ op[i].arg = NoStream <=> op[i].kind = "create"
       /\ op[i].arg = stream /\ stream # NoStream => op[i].mutex = opLock
HasCreated(o) == o.kind = "create" /\ o.st = "ok"
ResultsFresh ==
  \A i \in Slot : HasCreated(op[i]) =>
    /\ op[i].arg \in 1 .. nstreams
    /\ op[i].arg \notin closed /\ op[i].arg # stream
    /\ \A t \in Task : op[i].arg # local[t]
    /\ \A j \in Slot : op[j].st \in Busy => op[j].arg # op[i].arg

StreamInv == StreamsFit /\ ArgsFit /\ ResultsFresh

(* The streams stay straight through the steps of the lock holder, ...     *)
LEMMA WorkStreams ==
  ASSUME TypeOK, HolderInv, OwnInv, StreamInv, NEW t \in Task, NEW at \in PCs,
         WorkStep(t, at)
  PROVE  StreamInv'
<1> USE DEF NoStream
<1>1. /\ GoesTo(t, at) /\ Alone(t)
      /\ \A u \in Task : u # t => /\ awaits'[u] = awaits[u]
                                  /\ pc'[u] = pc[u] /\ local'[u] = local[u]
      /\ pc'[t] = at
      /\ at \in Working => awaits'[t] \in Slot /\ Starts(t, at, awaits'[t])
      /\ \A j \in Slot : \/ op'[j].st = "free" \/ GivenUp(t, j)
                         \/ Starts(t, at, j)
  BY WorkOps
<1>2. nstreams' = nstreams /\ nstreams \in Nat
  BY DEF WorkStep, TypeOK
<1>3. ASSUME NEW u \in Task, u # t
      PROVE  pc[u] \notin Working /\ local[u] = 0
  BY <1>1, <1>3 DEF Alone, Working, OwnInv, AwaitsFit
<1>4. pc[t] \in Working => awaits[t] \in Slot
  BY NoneFresh DEF OwnInv, AwaitsFit, TypeOK
<1>5. /\ StreamsFit'
      /\ at = "cancel" => local'[t] # 0
      /\ at \in Uses => stream' # 0
      /\ opLock' = opLock \/ stream' = 0
      /\ \/ stream' \in {stream, 0}
         \/ \A j \in Slot : op[j].st \in Busy => op[j].arg # stream'
  <2>1. CASE Plain(t, at)
    BY <1>1, <1>2, <2>1 DEF Plain, NotActive, StreamInv, StreamsFit
  <2>2. CASE at = "cancel" /\ Takes(t)
    BY <1>1, <1>2, <1>3, <2>2 DEF Takes, NotActive, StreamInv, StreamsFit,
       Creating, Uses, TypeOK
  <2>3. CASE Closes(t, at)
    BY <1>1, <1>2, <2>3 DEF Closes, CloseStream, NotActive, StreamInv,
       StreamsFit, Creating, Uses, TypeOK
  <2>4. CASE Claims(t, at)
    <3>1. op[awaits[t]].kind = "create" /\ HasCreated(op[awaits[t]])
      BY <2>4 DEF Claims, OwnInv, AwaitsFit, Creating, Working, KindAt, HasCreated
    <3>2. /\ stream' \in 1 .. nstreams /\ stream' \notin closed
          /\ \A u \in Task : local[u] # stream'
          /\ \A j \in Slot : op[j].st \in Busy => op[j].arg # stream'
      BY <1>4, <2>4, <3>1 DEF Claims, StreamInv, ResultsFresh, Creating, Working
    <3>3. at \notin Creating /\ at # "cancel"
      BY <2>4 DEF Claims, Creating
    <3>4. QED
      BY <1>1, <1>2, <1>3, <2>4, <3>2, <3>3 DEF Claims, StreamInv, StreamsFit,
         Creating, Working
  <2>5. CASE Settles(t, at)
    <3>1. stream = 0 /\ local[t] # 0 /\ local[t] \in 0 .. nstreams
      BY <2>5 DEF Settles, HolderInv, StreamInv, StreamsFit, ArgsFit
    <3>2. closed' \subseteq closed \cup {local[t]} /\ local'[t] = 0
          /\ stream' = 0 /\ at \notin Uses /\ at # "cancel"
      BY <2>5, <3>1 DEF Settles, LeavesLocal, Uses, TypeOK
    <3>3. QED
      BY <1>1, <1>2, <1>3, <2>5, <3>1, <3>2 DEF Settles, NotActive, StreamInv,
         StreamsFit
  <2>6. CASE Bumps(t, at)
    <3>1. at \notin Uses \cup {"cancel"} \cup Creating
      BY <2>6 DEF Bumps, Uses, Creating
    <3>2. local'[t] \in {local[t], 0}
      BY <2>6 DEF Bumps, LeavesLocal, TypeOK
    <3>3. QED
      BY <1>1, <1>2, <1>3, <2>6, <3>1, <3>2 DEF Bumps, StreamInv, StreamsFit
  <2>7. CASE \E ok \in BOOLEAN : Restarts(t, at, ok)
    <3>1. stream = 0
      BY <2>7 DEF Restarts, HolderInv, Restarting, Rebuilding
    <3>2. /\ closed' = closed \cup ({local[t]} \ {0})
          /\ stream' = 0 /\ at \notin Uses /\ at # "cancel" /\ NotActive
          /\ local'[t] = 0
      BY <2>7, <3>1 DEF Restarts, Uses, LeavesLocal, TypeOK
    <3>3. local[t] \in 0 .. nstreams /\ closed \subseteq 1 .. nstreams
      BY DEF StreamInv, StreamsFit
    <3>4. closed' \subseteq 1 .. nstreams /\ 0 \notin closed'
      <4>1. {local[t]} \ {0} \subseteq 1 .. nstreams
        BY <1>2, <3>3
      <4>2. 0 \notin 1 .. nstreams
        BY <1>2
      <4>3. closed' \subseteq 1 .. nstreams
        BY <3>2, <3>3, <4>1
      <4>4. QED
        BY <4>2, <4>3
    <3>5. ASSUME NEW u \in Task
          PROVE  local'[u] = 0
      BY <1>1, <1>3, <3>2
    <3>6. QED
      BY <1>2, <3>2, <3>4, <3>5 DEF NotActive, StreamsFit
  <2>8. QED
    BY <2>1, <2>2, <2>3, <2>4, <2>5, <2>6, <2>7 DEF WorkStep
<1>6. ASSUME NEW j \in Slot, Starts(t, at, j)
      PROVE  /\ op'[j].kind = KindAt(at) /\ op'[j].arg = Subject(t, at)
             /\ op'[j].mutex = opLock' /\ op'[j].st = "queued"
  BY <1>6 DEF Starts, Submitted
<1>7. /\ at \in Creating => KindAt(at) = "create" /\ Subject(t, at) = 0
      /\ at \in Working \ Creating =>
           /\ KindAt(at) = at /\ KindAt(at) # "create"
           /\ Subject(t, at) \in 1 .. nstreams
           /\ at = "cancel" => Subject(t, at) = local'[t]
           /\ at \in Uses => Subject(t, at) = stream'
  <2>1. at \in Working \ Creating => at = "cancel" \/ (at # "cancel" /\ at \in Uses)
    BY DEF Working, Creating, Uses
  <2>2. \A s : s \in 0 .. nstreams /\ s # 0 => s \in 1 .. nstreams
    BY <1>2
  <2>3. stream' \in 0 .. nstreams /\ local'[t] \in 0 .. nstreams
    BY <1>2, <1>5 DEF StreamsFit
  <2>4. at = "cancel" => at \notin Uses
    BY DEF Uses
  <2>5. QED
    BY <1>5, <2>1, <2>2, <2>3, <2>4 DEF KindAt, Subject, Creating
<1>8. ArgsFit'
  <2>1. ASSUME NEW u \in Task
        PROVE  /\ pc'[u] = "cancel" => /\ local'[u] # 0
                                       /\ op'[awaits'[u]].arg = local'[u]
               /\ pc'[u] \in Uses => op'[awaits'[u]].arg = stream'
    <3>1. CASE u = t
      <4>1. at \in Uses \cup {"cancel"} => at \in Working \ Creating
        BY DEF Uses, Working, Creating
      <4>2. QED
        BY <1>1, <1>5, <1>6, <1>7, <3>1, <4>1
    <3>2. CASE u # t
      BY <1>1, <1>3, <3>2 DEF Working, Uses
    <3>3. QED
      BY <3>1, <3>2
  <2>2. ASSUME NEW i \in Slot, op'[i].st \in Busy
        PROVE  /\ op'[i].arg \in 0 .. nstreams
               /\ op'[i].arg = 0 <=> op'[i].kind = "create"
               /\ op'[i].arg = stream' /\ stream' # 0 => op'[i].mutex = opLock'
    <3>1. CASE Starts(t, at, i)
      BY <1>2, <1>6, <1>7, <3>1 DEF Starts
    <3>2. CASE GivenUp(t, i)
      BY <1>5, <3>2 DEF GivenUp, Outlives, Same, StreamInv, ArgsFit
    <3>3. QED
      BY <1>1, <2>2, <3>1, <3>2 DEF Busy
  <2>3. QED
    BY <1>2, <2>1, <2>2 DEF ArgsFit
<1>9. ResultsFresh'
  <2>1. ASSUME NEW i \in Slot
        PROVE  op'[i].st # "ok"
    BY <1>1, <1>6 DEF GivenUp, Outlives, Same, Busy
  <2>2. QED
    BY <2>1 DEF ResultsFresh, HasCreated
<1>10. QED
  BY <1>5, <1>8, <1>9 DEF StreamInv

(* ... when a task is given up, ...                                        *)
LEMMA LetsStreams ==
  ASSUME TypeOK, OwnInv, StreamInv, NEW t \in Task, Lets(t), OwnInv'
  PROVE  StreamInv'
<1>1. ASSUME NEW j \in Slot
      PROVE  \/ op'[j] = op[j]
             \/ op'[j] = NoOp /\ op'[j].st = "free"
             \/ op'[j].st \in Busy /\ Same(op[j], op'[j])
  <2>1. NoOp.st = "free"
    BY DEF NoOp
  <2>2. op'[j] = op[j] \/ op'[j] = NoOp \/ Outlives(j)
    BY DEF Lets
  <2>3. QED
    BY <2>1, <2>2 DEF Outlives, Same
<1>2. StreamsFit'
  <2>1. UNCHANGED <<mstate, stream, closed, nstreams>>
    BY DEF Lets
  <2>2. ASSUME NEW u \in Task
        PROVE  /\ local'[u] \in {local[u], 0}
               /\ pc'[u] \in Creating => pc[u] \in Creating
    BY DEF Lets, Creating, NoStream
  <2>3. nstreams \in Nat
    BY DEF TypeOK
  <2>4. QED
    BY <2>1, <2>2, <2>3 DEF StreamInv, StreamsFit, NoStream
<1>3. ASSUME NEW u \in Task, pc'[u] \in Working
      PROVE  /\ u # t /\ pc[u] = pc'[u] /\ awaits'[u] = awaits[u]
             /\ local'[u] = local[u] /\ awaits[u] \in Slot
             /\ op'[awaits[u]].arg = op[awaits[u]].arg
  <2>1. u # t /\ pc[u] = pc'[u] /\ awaits'[u] = awaits[u] /\ local'[u] = local[u]
    BY <1>3 DEF Lets, Working
  <2>2. awaits[u] \in Slot /\ op'[awaits[u]].owner = u /\ u # None
    BY <1>3, <2>1, NoneFresh DEF TypeOK, OwnInv, OwnersAgree, AwaitsFit
  <2>3. op'[awaits[u]] # NoOp
    BY <2>2 DEF NoOp
  <2>4. QED
    BY <1>1, <2>1, <2>2, <2>3 DEF Same
<1>4. ArgsFit'
  <2>1. ASSUME NEW u \in Task
        PROVE  /\ pc'[u] = "cancel" => /\ local'[u] # 0
                                       /\ op'[awaits'[u]].arg = local'[u]
               /\ pc'[u] \in Uses => op'[awaits'[u]].arg = stream'
    BY <1>3 DEF Lets, Working, Uses, StreamInv, ArgsFit, NoStream
  <2>2. ASSUME NEW i \in Slot, op'[i].st \in Busy
        PROVE  /\ op'[i].arg \in 0 .. nstreams
               /\ op'[i].arg = 0 <=> op'[i].kind = "create"
               /\ op'[i].arg = stream' /\ stream' # 0 => op'[i].mutex = opLock'
    BY <1>1, <2>2 DEF Lets, Same, Busy, StreamInv, ArgsFit, NoStream
  <2>3. QED
    BY <2>1, <2>2 DEF ArgsFit, Lets, NoStream
<1>5. ResultsFresh'
  <2>1. ASSUME NEW i \in Slot, HasCreated(op'[i])
        PROVE  op'[i] = op[i]
    BY <1>1, <2>1 DEF HasCreated, Busy
  <2>2. ASSUME NEW u \in Task
        PROVE  local'[u] \in {local[u], 0}
    BY DEF Lets, NoStream
  <2>3. ASSUME NEW j \in Slot, op'[j].st \in Busy
        PROVE  op[j].st \in Busy /\ op'[j].arg = op[j].arg
    BY <1>1, <2>3 DEF Busy, Same
  <2>4. UNCHANGED <<stream, closed, nstreams>> /\ nstreams \in Nat
    BY DEF Lets, TypeOK
  <2>5. ASSUME NEW i \in Slot, HasCreated(op'[i])
        PROVE  /\ op[i].arg \in 1 .. nstreams
               /\ op[i].arg \notin closed /\ op[i].arg # stream
               /\ \A u \in Task : op[i].arg # local[u]
               /\ \A j \in Slot : op[j].st \in Busy => op[j].arg # op[i].arg
    BY <2>1, <2>5 DEF ResultsFresh, StreamInv
  <2>6. QED
    BY <2>1, <2>2, <2>3, <2>4, <2>5 DEF ResultsFresh
<1>6. QED
  BY <1>2, <1>4, <1>5 DEF StreamInv

(* ... and through the steps of a thread.                                  *)
LEMMA ThreadStreams ==
  ASSUME TypeOK, OwnInv, StreamInv, NEW i \in Slot, ThreadStep(i)
  PROVE  StreamInv'
<1> USE DEF NoStream
<1>1. UNCHANGED <<mstate, stream, opLock, closed, pc, awaits, local>>
  BY DEF ThreadStep, tasks
<1>2. /\ \A j \in Slot : j # i => op'[j] = op[j]
      /\ op[i].st \in Busy
      /\ \/ op'[i] = NoOp /\ op[i].owner = None
         \/ /\ op'[i].kind = op[i].kind /\ op'[i].mutex = op[i].mutex
            /\ op'[i].arg = op[i].arg /\ op'[i].st # "free"
            /\ op'[i].kind = "create" => op'[i].st # "ok"
         \/ /\ op'[i].kind = "create" /\ op'[i].st = "ok"
            /\ op'[i].arg = nstreams + 1 /\ nstreams' = nstreams + 1
            /\ op[i].arg = 0
  BY ThreadOps DEF Births, StreamInv, ArgsFit, Failed
<1>3. nstreams \in Nat /\ nstreams' \in {nstreams, nstreams + 1}
  BY DEF ThreadStep, Births, NoBirth, TypeOK
<1>4. 0 .. nstreams \subseteq 0 .. nstreams' /\ 1 .. nstreams \subseteq 1 .. nstreams'
  BY <1>3
<1>5. NoOp.st = "free" /\ "free" \notin Busy \cup {"ok"} /\ NoOp.arg = 0
  BY DEF NoOp, Busy
<1>6. "ok" \notin Busy
  BY DEF Busy
<1>7. StreamsFit'
  BY <1>1, <1>4 DEF StreamInv, StreamsFit
<1>8. ArgsFit'
  <2>1. ASSUME NEW u \in Task, pc[u] \in Uses \cup {"cancel"}
        PROVE  op'[awaits[u]].arg = op[awaits[u]].arg
    <3>1. /\ awaits[u] \in Slot /\ op[awaits[u]].owner = u /\ u # None
          /\ op[awaits[u]].kind = KindAt(pc[u])
      BY <2>1, NoneFresh DEF TypeOK, OwnInv, OwnersAgree, AwaitsFit, Uses, Working
    <3>2. KindAt(pc[u]) # "create"
      BY <2>1 DEF KindAt, Creating, Uses
    <3>3. op[awaits[u]].arg # 0 \/ awaits[u] # i
      BY <1>2, <3>1, <3>2 DEF StreamInv, ArgsFit
    <3>4. QED
      BY <1>2, <3>1, <3>2, <3>3
  <2>2. ASSUME NEW j \in Slot, op'[j].st \in Busy
        PROVE  /\ op[j].st \in Busy /\ op'[j].arg = op[j].arg
               /\ op'[j].kind = op[j].kind /\ op'[j].mutex = op[j].mutex
    BY <1>2, <1>5, <1>6, <2>2
  <2>3. QED
    BY <1>1, <1>4, <2>1, <2>2 DEF StreamInv, ArgsFit
<1>9. ResultsFresh'
  <2>1. ASSUME NEW j \in Slot, op'[j].st \in Busy
        PROVE  op[j].st \in Busy /\ op'[j].arg = op[j].arg
    BY <1>2, <1>5, <1>6, <2>1
  <2>2. ASSUME NEW j \in Slot, HasCreated(op'[j])
        PROVE  \/ op'[j] = op[j]
               \/ op'[j].arg = nstreams + 1 /\ nstreams' = nstreams + 1
    BY <1>2, <1>5, <2>2 DEF HasCreated
  <2>3. ASSUME NEW j \in Slot, op'[j].arg = nstreams + 1, nstreams' = nstreams + 1
        PROVE  /\ op'[j].arg \in 1 .. nstreams'
               /\ op'[j].arg \notin closed /\ op'[j].arg # stream
               /\ \A t \in Task : op'[j].arg # local[t]
               /\ \A k \in Slot : op[k].st \in Busy => op'[j].arg # op[k].arg
    BY <1>3, <2>3 DEF StreamInv, StreamsFit, ArgsFit
  <2>4. QED
    BY <1>1, <1>4, <2>1, <2>2, <2>3 DEF StreamInv, ResultsFresh, HasCreated
<1>10. QED
  BY <1>7, <1>8, <1>9 DEF StreamInv

(* The mutexes.  Two operations that run have different mutexes, and two   *)
(* operations on one stream have the same: they never run together.        *)
MutexInv ==
  /\ \A i, j \in Slot :
       i # j /\ op[i].st = "running" /\ op[j].st = "running"
         => op[i].mutex # op[j].mutex
  /\ \A i, j \in Slot :
       /\ op[i].st \in Busy /\ op[j].st \in Busy
       /\ op[i].arg = op[j].arg /\ op[i].arg # NoStream
       => op[i].mutex = op[j].mutex

(* The mutexes through the steps of the lock holder: what it starts is on  *)
(* its own stream, whose operations have the published mutex.              *)
LEMMA WorkMutex ==
  ASSUME TypeOK, HolderInv, OwnInv, StreamInv, StreamInv', MutexInv,
         NEW t \in Task, NEW at \in PCs, WorkStep(t, at)
  PROVE  MutexInv'
<1>1. \A j \in Slot : \/ op'[j].st = "free" \/ GivenUp(t, j)
                      \/ Starts(t, at, j)
  BY WorkOps
<1>2. ASSUME NEW j \in Slot, Starts(t, at, j)
      PROVE  /\ op'[j].st = "queued" /\ op'[j].arg = Subject(t, at)
             /\ op'[j].mutex = opLock' /\ at \in Working /\ j = awaits'[t]
  BY <1>2 DEF Starts, Submitted
<1>3. ASSUME NEW j \in Slot, GivenUp(t, j)
      PROVE  Same(op[j], op'[j]) /\ op[j].st \in Busy
  BY <1>3 DEF GivenUp, Outlives
<1>4. ASSUME NEW i \in Slot, op'[i].st = "running"
      PROVE  op[i].st = "running" /\ op'[i].mutex = op[i].mutex
  BY <1>1, <1>2, <1>3, <1>4 DEF Same
<1>5. ASSUME at \in Working \ Creating, NEW j \in Slot, GivenUp(t, j),
             op[j].arg = Subject(t, at)
      PROVE  op[j].mutex = opLock'
  <2>1. CASE at = "cancel"
    <3>1. /\ stream # NoStream /\ local' = [local EXCEPT ![t] = stream]
          /\ opLock' = opLock
      BY <2>1 DEF WorkStep, Plain, Takes, Closes, Claims, Settles, Bumps,
                  Restarts
    <3>2. Subject(t, at) = stream
      BY <2>1, <3>1 DEF Subject, Creating, TypeOK
    <3>3. QED
      BY <1>3, <1>5, <3>1, <3>2 DEF StreamInv, ArgsFit
  <2>2. CASE at # "cancel"
    <3>1. at \in Uses /\ Subject(t, at) = stream'
      BY <1>5, <2>2 DEF Working, Creating, Uses, Subject
    <3>2. stream' # NoStream
      <4>1. at \in {"feed", "finalize", "prepare", "partial"}
        BY <3>1 DEF Uses
      <4>2. Plain(t, at) \/ Claims(t, at)
        BY <2>2, <4>1 DEF WorkStep, Takes, Closes, Settles, Bumps, Restarts
      <4>3. CASE Plain(t, at)
        BY <3>1, <4>3 DEF Plain
      <4>4. CASE Claims(t, at)
        <5>1. awaits[t] \in Slot /\ HasCreated(op[awaits[t]])
          BY <4>4, NoneFresh DEF Claims, OwnInv, AwaitsFit, Creating, Working,
             KindAt, HasCreated, TypeOK
        <5>2. op[awaits[t]].arg \in 1 .. nstreams
          BY <5>1 DEF StreamInv, ResultsFresh
        <5>3. QED
          BY <4>4, <5>2 DEF Claims, NoStream
      <4>5. QED
        BY <4>2, <4>3, <4>4
    <3>3. op'[j].st \in Busy /\ op'[j].arg = stream' /\ op'[j].mutex = op[j].mutex
      BY <1>3, <1>5, <3>1 DEF Same
    <3>4. QED
      BY <3>2, <3>3 DEF StreamInv, ArgsFit
  <2>3. QED
    BY <2>1, <2>2
<1>6. at \in Creating => Subject(t, at) = NoStream
  BY DEF Subject
<1>7. ASSUME NEW i \in Slot, NEW j \in Slot, op'[i].st \in Busy,
             op'[j].st \in Busy, op'[i].arg = op'[j].arg, op'[i].arg # NoStream
      PROVE  op'[i].mutex = op'[j].mutex
  <2>1. "free" \notin Busy
    BY DEF Busy
  <2>2. CASE GivenUp(t, i) /\ GivenUp(t, j)
    BY <1>3, <1>7, <2>2 DEF MutexInv, Same
  <2>3. CASE Starts(t, at, i) /\ GivenUp(t, j)
    BY <1>2, <1>3, <1>5, <1>6, <1>7, <2>3 DEF Same
  <2>4. CASE GivenUp(t, i) /\ Starts(t, at, j)
    BY <1>2, <1>3, <1>5, <1>6, <1>7, <2>4 DEF Same
  <2>5. CASE Starts(t, at, i) /\ Starts(t, at, j)
    BY <1>2, <2>5
  <2>6. QED
    BY <1>1, <1>7, <2>1, <2>2, <2>3, <2>4, <2>5
<1>8. QED
  BY <1>4, <1>7 DEF MutexInv, NoStream

(* The mutexes when a task is given up.                                    *)
LEMMA LetsMutex ==
  ASSUME MutexInv, NEW t \in Task, Lets(t)
  PROVE  MutexInv'
<1>1. ASSUME NEW j \in Slot, op'[j].st \in Busy
      PROVE  Same(op[j], op'[j])
  BY <1>1 DEF Lets, Outlives, Same, NoOp, Busy
<1>2. QED
  BY <1>1 DEF MutexInv, Same, Busy, NoStream

(* The mutexes through the steps of a thread: it starts an operation when  *)
(* its mutex is free.                                                      *)
LEMMA ThreadMutex ==
  ASSUME TypeOK, OwnInv, StreamInv, MutexInv, NEW i \in Slot, ThreadStep(i)
  PROVE  MutexInv'
<1>1. /\ \A j \in Slot : j # i => op'[j] = op[j]
      /\ op[i].st \in Busy
      /\ op'[i].st \in Busy => /\ op'[i].arg = op[i].arg
                               /\ op'[i].mutex = op[i].mutex
                               /\ op'[i].st = "running" /\ Runs(i)
  BY ThreadOps DEF NoOp, Busy, Failed
<1>2. ASSUME NEW j \in Slot, op'[j].st \in Busy
      PROVE  /\ op[j].st \in Busy /\ op'[j].arg = op[j].arg
             /\ op'[j].mutex = op[j].mutex
  BY <1>1, <1>2
<1>3. ASSUME NEW j \in Slot, NEW k \in Slot, j # k, op'[j].st = "running",
             op'[k].st = "running"
      PROVE  op'[j].mutex # op'[k].mutex
  <2>1. op'[j].st \in Busy /\ op'[k].st \in Busy
    BY <1>3 DEF Busy
  <2>2. CASE j # i /\ k # i
    BY <1>1, <1>3, <2>2 DEF MutexInv
  <2>3. CASE j = i
    BY <1>1, <1>3, <2>1, <2>3 DEF Runs, MutexFree
  <2>4. CASE k = i
    BY <1>1, <1>3, <2>1, <2>4 DEF Runs, MutexFree
  <2>5. QED
    BY <2>2, <2>3, <2>4
<1>4. QED
  BY <1>2, <1>3 DEF MutexInv, NoStream

(* The epochs.  An operation of the current epoch, and one that a task     *)
(* awaits, was submitted under the published mutex; while a restart is on  *)
(* its way every operation left in the executor is of an older epoch.      *)
EpochInv ==
  /\ \A i \in Slot :
       /\ op[i].st # "retired"
       /\ op[i].st \in Busy =>
            /\ op[i].epoch <= opEpoch
            /\ op[i].epoch = opEpoch => op[i].mutex = opLock
            /\ op[i].owner # None => /\ op[i].epoch = opEpoch
                                     /\ op[i].mutex = opLock
  /\ \A t \in Task : pc[t] \in Restarting =>
       \A i \in Slot : op[i].st \in Busy => op[i].epoch < opEpoch

(* The epochs through the steps of the lock holder: a restart is preceded  *)
(* by a new epoch, and nobody awaits an operation meanwhile.               *)
LEMMA WorkEpoch ==
  ASSUME TypeOK, HolderInv, OwnInv, EpochInv, NEW t \in Task, NEW at \in PCs,
         WorkStep(t, at)
  PROVE  EpochInv'
<1>1. /\ Alone(t)
      /\ \A u \in Task : u # t => pc'[u] = pc[u]
      /\ pc'[t] = at
      /\ \A j \in Slot : \/ op'[j].st = "free" \/ GivenUp(t, j)
                         \/ Starts(t, at, j)
  BY WorkOps
<1>2. opEpoch \in Nat /\ \A j \in Slot : op[j].epoch \in Nat
  BY DEF TypeOK, Op
<1>3. ASSUME NEW j \in Slot, Starts(t, at, j)
      PROVE  /\ op'[j].st = "queued" /\ op'[j].epoch = opEpoch'
             /\ op'[j].mutex = opLock' /\ at \in Working
  BY <1>3 DEF Starts, Submitted
<1>4. \/ opEpoch' = opEpoch /\ opLock' = opLock /\ at \notin Restarting
      \/ opEpoch' = opEpoch + 1 /\ at \in Restarting
      \/ /\ opEpoch' = opEpoch /\ pc[t] \in Restarting /\ at \notin Restarting
  BY DEF WorkStep, Plain, Takes, Closes, Claims, Settles, Bumps, Restarts,
         Restarting
<1>5. opEpoch' \in Nat
  BY <1>2, <1>4
<1>6. ASSUME NEW j \in Slot, GivenUp(t, j)
      PROVE  /\ op'[j].st \in Busy /\ op'[j].epoch = op[j].epoch
             /\ op'[j].mutex = op[j].mutex /\ op'[j].owner = None
             /\ op[j].st \in Busy
  BY <1>6 DEF GivenUp, Outlives, Same
<1>7. ASSUME NEW j \in Slot, GivenUp(t, j)
      PROVE  /\ op[j].epoch <= opEpoch'
             /\ op[j].epoch = opEpoch' => op[j].mutex = opLock'
             /\ at \in Restarting => op[j].epoch < opEpoch'
  <2>1. /\ op[j].epoch <= opEpoch
        /\ op[j].epoch = opEpoch => op[j].mutex = opLock
        /\ pc[t] \in Restarting => op[j].epoch < opEpoch
    BY <1>6, <1>7 DEF EpochInv
  <2>2. QED
    BY <1>2, <1>4, <2>1
<1>8. ASSUME NEW j \in Slot
      PROVE  /\ op'[j].st # "retired"
             /\ op'[j].st \in Busy =>
                  /\ op'[j].epoch <= opEpoch'
                  /\ op'[j].epoch = opEpoch' => op'[j].mutex = opLock'
                  /\ op'[j].owner # None => /\ op'[j].epoch = opEpoch'
                                            /\ op'[j].mutex = opLock'
  <2>1. "free" \notin Busy /\ "retired" \notin Busy
    BY DEF Busy
  <2>2. CASE GivenUp(t, j)
    BY <1>6, <1>7, <2>1, <2>2
  <2>3. CASE Starts(t, at, j)
    BY <1>3, <1>5, <2>3
  <2>4. QED
    BY <1>1, <2>1, <2>2, <2>3
<1>9. ASSUME NEW u \in Task, pc'[u] \in Restarting, NEW j \in Slot,
             op'[j].st \in Busy
      PROVE  op'[j].epoch < opEpoch'
  <2>1. u = t /\ at \in Restarting
    BY <1>1, <1>9 DEF Alone, Restarting
  <2>2. at \notin Working
    BY <2>1 DEF Restarting, Working
  <2>3. GivenUp(t, j)
    BY <1>1, <1>3, <1>9, <2>2 DEF Busy
  <2>4. QED
    BY <1>6, <1>7, <2>1, <2>3
<1>10. QED
  BY <1>8, <1>9 DEF EpochInv

(* The epochs when a task is given up.                                     *)
LEMMA LetsEpoch ==
  ASSUME EpochInv, NEW t \in Task, Lets(t)
  PROVE  EpochInv'
<1>1. UNCHANGED <<opEpoch, opLock>>
  BY DEF Lets
<1>2. ASSUME NEW j \in Slot
      PROVE  \/ op'[j] = op[j] \/ op'[j].st = "free"
             \/ Same(op[j], op'[j]) /\ op'[j].owner = None /\ op[j].st \in Busy
  BY DEF Lets, Outlives, NoOp
<1>3. ASSUME NEW u \in Task, pc'[u] \in Restarting
      PROVE  pc[u] \in Restarting
  BY <1>3 DEF Lets, Restarting
<1>4. QED
  BY <1>1, <1>2, <1>3 DEF EpochInv, Same, Busy

(* The epochs through the steps of a thread.                               *)
LEMMA ThreadEpoch ==
  ASSUME TypeOK, OwnInv, EpochInv, NEW i \in Slot, ThreadStep(i)
  PROVE  EpochInv'
<1>1. UNCHANGED <<opEpoch, opLock, pc>>
  BY DEF ThreadStep, tasks
<1>2. ~Retires(i)
  <2>1. op[i].owner # None /\ op[i].st \in Busy => op[i].epoch = opEpoch
    BY DEF EpochInv
  <2>2. QED
    BY <2>1 DEF Retires, Retired, Busy
<1>3. /\ \A j \in Slot : j # i => op'[j] = op[j]
      /\ op[i].st \in Busy /\ op'[i].st # "retired"
      /\ op'[i].st \in Busy => /\ op'[i].epoch = op[i].epoch
                               /\ op'[i].mutex = op[i].mutex
                               /\ op'[i].owner = op[i].owner
  BY <1>2, ThreadOps DEF NoOp, Busy, Failed
<1>4. QED
  BY <1>1, <1>3 DEF EpochInv

(* The incarnations.  No stream, and no create whose caller still waits,   *)
(* is of a worker older than the published mutex; nor is the stream of a   *)
(* cancel that is still to run.  What runs may have been overtaken by no   *)
(* more restarts than came through without publishing their mutex.         *)
WorkerInv ==
  /\ opLock <= worker
  /\ \A s \in 1 .. nstreams : born[s] <= worker
  /\ stream # NoStream => opLock <= born[stream]
  /\ \A i \in Slot :
       /\ op[i].kind = "cancel" /\ op[i].st = "queued" /\ op[i].epoch = opEpoch
            => opLock <= born[op[i].arg]
       /\ op[i].kind = "cancel" /\ op[i].st = "running"
            => op[i].inc + opLock <= worker + born[op[i].arg]
       /\ op[i].kind = "create" /\ op[i].st = "running" /\ op[i].owner # None
            => opLock <= op[i].inc
       /\ HasCreated(op[i]) => opLock <= born[op[i].arg]
       /\ op[i].st = "running" => op[i].inc <= worker

(* The incarnation that created a stream is a number.                      *)
LEMMA BornType ==
  ASSUME TypeOK, NEW s \in 1 .. nstreams
  PROVE  born[s] \in Nat
  BY DEF TypeOK

(* What is not a create is on an existing stream.                          *)
LEMMA CancelArg ==
  ASSUME TypeOK, StreamInv, NEW i \in Slot, op[i].st \in Busy,
         op[i].kind # "create"
  PROVE  op[i].arg \in 1 .. nstreams
<1>1. op[i].arg \in 0 .. nstreams /\ op[i].arg # 0 /\ nstreams \in Nat
  BY DEF StreamInv, ArgsFit, NoStream, TypeOK
<1>2. QED
  BY <1>1

(* The incarnations through the steps of the lock holder.                  *)
LEMMA WorkWorker ==
  ASSUME TypeOK, HolderInv, OwnInv, StreamInv, StreamInv', EpochInv, WorkerInv,
         NEW t \in Task, NEW at \in PCs, WorkStep(t, at)
  PROVE  WorkerInv'
<1>1. /\ \A j \in Slot : \/ op'[j].st = "free" \/ GivenUp(t, j)
                         \/ Starts(t, at, j)
  BY WorkOps
<1>2. /\ opEpoch \in Nat /\ opLock \in Nat /\ worker \in Nat /\ nstreams \in Nat
      /\ \A j \in Slot : op[j].epoch \in Nat /\ op[j].inc \in Nat
  BY DEF TypeOK, Op
<1>3. UNCHANGED <<nstreams, born>>
  BY DEF WorkStep
<1>4. \/ opEpoch' = opEpoch /\ opLock' = opLock /\ worker' = worker
      \/ opEpoch' = opEpoch + 1 /\ opLock' = opLock /\ worker' = worker
      \/ /\ opEpoch' = opEpoch /\ pc[t] \in Restarting /\ stream' = NoStream
         /\ \/ opLock' = opLock /\ worker' = worker
            \/ opLock' = opLock + 1 /\ worker' = worker + 1
  BY DEF WorkStep, Plain, Takes, Closes, Claims, Settles, Bumps, Restarts,
         Restarting, HolderInv, Rebuilding
<1>5. opLock' <= worker' /\ worker <= worker' /\ worker' \in Nat
  BY <1>2, <1>4 DEF WorkerInv
<1>6. \A s \in 1 .. nstreams : born[s] <= worker'
  BY <1>2, <1>5, BornType DEF WorkerInv
<1>7. stream' # NoStream => opLock' <= born[stream']
  <2>1. SUFFICES ASSUME stream' # NoStream
                 PROVE  opLock' <= born[stream']
    OBVIOUS
  <2>2. opLock' = opLock
    BY <1>4, <2>1
  <2>3. CASE stream' = stream
    BY <2>1, <2>2, <2>3 DEF WorkerInv
  <2>4. CASE stream' # stream
    <3>1. Claims(t, at)
      BY <2>1, <2>4 DEF WorkStep, Plain, Takes, Closes, Settles, Bumps, Restarts
    <3>2. awaits[t] \in Slot /\ HasCreated(op[awaits[t]])
      BY <3>1, NoneFresh DEF Claims, OwnInv, AwaitsFit, Creating, Working,
         KindAt, HasCreated, TypeOK
    <3>3. QED
      BY <2>2, <3>1, <3>2 DEF Claims, WorkerInv
  <2>5. QED
    BY <2>3, <2>4
<1>8. ASSUME NEW j \in Slot, Starts(t, at, j)
      PROVE  /\ op'[j].st = "queued"
             /\ op'[j].kind = "cancel" => opLock' <= born[op'[j].arg]
  <2>1. /\ op'[j].st = "queued" /\ op'[j].kind = KindAt(at)
        /\ op'[j].arg = Subject(t, at)
    BY <1>8 DEF Starts, Submitted
  <2>2. CASE at # "cancel"
    BY <2>1, <2>2 DEF KindAt
  <2>3. CASE at = "cancel"
    <3>1. /\ stream # NoStream /\ local' = [local EXCEPT ![t] = stream]
          /\ opLock' = opLock
      BY <2>3 DEF WorkStep, Plain, Takes, Closes, Claims, Settles, Bumps,
                  Restarts
    <3>2. Subject(t, at) = stream
      BY <2>3, <3>1 DEF Subject, Creating, TypeOK
    <3>3. QED
      BY <2>1, <3>1, <3>2 DEF WorkerInv
  <2>4. QED
    BY <2>2, <2>3
<1>9. ASSUME NEW j \in Slot, GivenUp(t, j)
      PROVE  /\ Same(op[j], op'[j]) /\ op[j].st \in Busy
             /\ op'[j].owner = None
             /\ op[j].kind = "cancel" /\ op[j].st = "queued" /\ op[j].epoch = opEpoch'
                  => opLock' <= born[op[j].arg]
             /\ op[j].kind = "cancel" /\ op[j].st = "running"
                  => op[j].inc + opLock' <= worker' + born[op[j].arg]
             /\ op[j].st = "running" => op[j].inc <= worker'
  <2>1. Same(op[j], op'[j]) /\ op[j].st \in Busy /\ op'[j].owner = None
    BY <1>9 DEF GivenUp, Outlives
  <2>2. /\ op[j].epoch <= opEpoch
        /\ pc[t] \in Restarting => op[j].epoch < opEpoch
    BY <2>1 DEF EpochInv
  <2>3. op[j].epoch = opEpoch' => opEpoch' = opEpoch /\ opLock' = opLock
    BY <1>2, <1>4, <2>2
  <2>4. op[j].kind = "cancel" => born[op[j].arg] \in Nat
    BY <2>1, CancelArg, BornType
  <2>5. /\ op[j].kind = "cancel" /\ op[j].st = "running"
             => op[j].inc + opLock <= worker + born[op[j].arg]
        /\ op[j].st = "running" => op[j].inc <= worker
        /\ op[j].kind = "cancel" /\ op[j].st = "queued" /\ op[j].epoch = opEpoch
             => opLock <= born[op[j].arg]
    BY DEF WorkerInv
  <2>6. op[j].kind = "cancel" /\ op[j].st = "running"
          => op[j].inc + opLock' <= worker' + born[op[j].arg]
    BY <1>2, <1>4, <2>4, <2>5
  <2>7. op[j].st = "running" => op[j].inc <= worker'
    BY <1>2, <1>5, <2>5
  <2>8. QED
    BY <2>1, <2>3, <2>5, <2>6, <2>7
<1>10. ASSUME NEW j \in Slot
       PROVE  /\ op'[j].kind = "cancel" /\ op'[j].st = "queued"
                   /\ op'[j].epoch = opEpoch'
                   => opLock' <= born[op'[j].arg]
              /\ op'[j].kind = "cancel" /\ op'[j].st = "running"
                   => op'[j].inc + opLock' <= worker' + born[op'[j].arg]
              /\ op'[j].kind = "create" /\ op'[j].st = "running"
                   /\ op'[j].owner # None
                   => opLock' <= op'[j].inc
              /\ HasCreated(op'[j]) => opLock' <= born[op'[j].arg]
              /\ op'[j].st = "running" => op'[j].inc <= worker'
  <2>1. CASE op'[j].st = "free"
    BY <2>1 DEF HasCreated
  <2>2. CASE Starts(t, at, j)
    BY <1>8, <2>2 DEF HasCreated
  <2>3. CASE GivenUp(t, j)
    BY <1>9, <2>3 DEF HasCreated, Same, Busy
  <2>4. QED
    BY <1>1, <2>1, <2>2, <2>3
<1>11. QED
  BY <1>3, <1>5, <1>6, <1>7, <1>10 DEF WorkerInv

(* The incarnations when a task is given up.                               *)
LEMMA LetsWorker ==
  ASSUME WorkerInv, NEW t \in Task, Lets(t)
  PROVE  WorkerInv'
<1>1. UNCHANGED <<opEpoch, opLock, nstreams, born, worker, stream>>
  BY DEF Lets
<1>2. ASSUME NEW j \in Slot
      PROVE  \/ op'[j] = op[j] \/ op'[j].st = "free"
             \/ Same(op[j], op'[j]) /\ op'[j].owner = None /\ op[j].st \in Busy
  BY DEF Lets, Outlives, NoOp
<1>3. QED
  BY <1>1, <1>2 DEF WorkerInv, Same, Busy, HasCreated

(* The incarnations through the steps of a thread: it runs a cancel only   *)
(* of the current epoch.                                                   *)
LEMMA ThreadWorker ==
  ASSUME TypeOK, OwnInv, StreamInv, EpochInv, WorkerInv, NEW i \in Slot,
         ThreadStep(i)
  PROVE  WorkerInv'
<1>1. UNCHANGED <<opEpoch, opLock, worker, stream>>
  BY DEF ThreadStep
<1>2. /\ opLock \in Nat /\ worker \in Nat /\ nstreams \in Nat
      /\ stream \in 0 .. nstreams /\ born \in Seq(Nat) /\ Len(born) = nstreams
      /\ op[i].inc \in Nat /\ op[i].retire = (op[i].kind = "cancel")
  BY DEF TypeOK, Op, StreamInv, StreamsFit, OwnInv, OwnersAgree
<1>3. \/ NoBirth
      \/ /\ nstreams' = nstreams + 1 /\ born'[nstreams + 1] = op[i].inc
         /\ \A s \in 1 .. nstreams : born'[s] = born[s]
         /\ op[i].st = "running" /\ op[i].kind = "create"
  <2>1. CASE Births(i)
    <3>1. born' = Append(born, op[i].inc) /\ Len(born) = nstreams
          /\ born \in Seq(Nat) /\ op[i].inc \in Nat
      BY <1>2, <2>1 DEF Births
    <3>2. /\ born'[nstreams + 1] = op[i].inc
          /\ \A s \in 1 .. nstreams : born'[s] = born[s]
      BY <3>1
    <3>3. QED
      BY <2>1, <3>2 DEF Births
  <2>2. QED
    BY <2>1 DEF ThreadStep
<1>4. \A s \in 1 .. nstreams : born'[s] = born[s]
  BY <1>3 DEF NoBirth
<1>5. \A s \in 1 .. nstreams' : born'[s] <= worker
  BY <1>2, <1>3, <1>4 DEF WorkerInv, NoBirth
<1>6. stream # NoStream => opLock <= born'[stream]
  <2>1. stream # NoStream => stream \in 1 .. nstreams
    BY <1>2 DEF NoStream
  <2>2. QED
    BY <1>4, <2>1 DEF WorkerInv
<1>7. ASSUME NEW j \in Slot, op[j].kind # "create", op[j].st \in Busy
      PROVE  born'[op[j].arg] = born[op[j].arg]
  BY <1>4, <1>7, CancelArg
<1>8. ASSUME NEW j \in Slot, HasCreated(op[j])
      PROVE  born'[op[j].arg] = born[op[j].arg]
  BY <1>4, <1>8 DEF StreamInv, ResultsFresh
<1>9. ASSUME NEW j \in Slot, j # i
      PROVE  /\ op'[j].kind = "cancel" /\ op'[j].st = "queued"
                  /\ op'[j].epoch = opEpoch => opLock <= born'[op'[j].arg]
             /\ op'[j].kind = "cancel" /\ op'[j].st = "running"
                  => op'[j].inc + opLock <= worker + born'[op'[j].arg]
             /\ op'[j].kind = "create" /\ op'[j].st = "running"
                  /\ op'[j].owner # None => opLock <= op'[j].inc
             /\ HasCreated(op'[j]) => opLock <= born'[op'[j].arg]
             /\ op'[j].st = "running" => op'[j].inc <= worker
  <2>1. op'[j] = op[j]
    BY <1>9, ThreadOps
  <2>2. QED
    BY <1>7, <1>8, <2>1 DEF WorkerInv, Busy
<1>10. /\ op'[i].kind = "cancel" /\ op'[i].st = "queued"
            /\ op'[i].epoch = opEpoch => opLock <= born'[op'[i].arg]
       /\ op'[i].kind = "cancel" /\ op'[i].st = "running"
            => op'[i].inc + opLock <= worker + born'[op'[i].arg]
       /\ op'[i].kind = "create" /\ op'[i].st = "running"
            /\ op'[i].owner # None => opLock <= op'[i].inc
       /\ HasCreated(op'[i]) => opLock <= born'[op'[i].arg]
       /\ op'[i].st = "running" => op'[i].inc <= worker
  <2>1. CASE op'[i] = NoOp
    BY <2>1 DEF NoOp, HasCreated
  <2>2. CASE /\ op'[i].kind = op[i].kind /\ op'[i].st = "running"
             /\ op'[i].arg = op[i].arg /\ op'[i].inc = worker /\ Runs(i)
    <3>1. op[i].st \in Busy /\ op[i].st = "queued"
      BY <2>2 DEF Runs, Busy
    <3>2. op[i].kind = "cancel" => op[i].epoch = opEpoch
      BY <1>2, <2>2 DEF Runs, Retired
    <3>3. op[i].kind = "cancel" =>
            /\ opLock <= born[op[i].arg] /\ born[op[i].arg] \in Nat
            /\ born'[op[i].arg] = born[op[i].arg]
      BY <1>7, <3>1, <3>2, CancelArg, BornType DEF WorkerInv
    <3>4. opLock <= worker
      BY DEF WorkerInv
    <3>5. QED
      BY <1>2, <2>2, <3>3, <3>4 DEF HasCreated
  <2>3. CASE op'[i].st = "retired"
    BY <2>3 DEF HasCreated
  <2>4. CASE /\ op'[i].st \in {"ok"} \cup Failed
             /\ op'[i].kind = "create" => op'[i].st # "ok"
    BY <2>4 DEF HasCreated, Failed
  <2>5. CASE /\ op'[i].st = "ok" /\ op[i].owner # None
             /\ op'[i].arg = nstreams + 1 /\ Births(i)
    <3>1. opLock <= op[i].inc
      BY <2>5 DEF Births, WorkerInv
    <3>2. born'[nstreams + 1] = op[i].inc
      BY <1>2, <2>5 DEF Births
    <3>3. QED
      BY <2>5, <3>1, <3>2
  <2>6. QED
    BY <2>1, <2>2, <2>3, <2>4, <2>5, ThreadOps
<1>11. QED
  BY <1>1, <1>5, <1>6, <1>9, <1>10 DEF WorkerInv

(* The incarnations when a restart whose caller is gone comes through.     *)
LEMMA LateWorker ==
  ASSUME TypeOK, StreamInv, WorkerInv, NEW ok \in BOOLEAN, LateRestart(ok)
  PROVE  WorkerInv'
<1>1. /\ UNCHANGED <<opLock, opEpoch, stream, nstreams, born, op>>
      /\ worker' \in {worker, worker + 1}
  BY DEF LateRestart, manager
<1>2. /\ opLock \in Nat /\ worker \in Nat /\ nstreams \in Nat
      /\ \A j \in Slot : op[j].inc \in Nat
  BY DEF TypeOK, Op
<1>3. \A s \in 1 .. nstreams : born[s] \in Nat /\ born[s] <= worker'
  BY <1>1, <1>2, BornType DEF WorkerInv
<1>4. ASSUME NEW j \in Slot, op[j].kind = "cancel", op[j].st = "running"
      PROVE  op[j].inc + opLock <= worker' + born[op[j].arg]
  <2>1. born[op[j].arg] \in Nat
    BY <1>4, CancelArg, BornType DEF Busy
  <2>2. op[j].inc + opLock <= worker + born[op[j].arg]
    BY <1>4 DEF WorkerInv
  <2>3. QED
    BY <1>1, <1>2, <2>1, <2>2
<1>5. ASSUME NEW j \in Slot, op[j].st = "running"
      PROVE  op[j].inc <= worker'
  BY <1>1, <1>2, <1>5 DEF WorkerInv
<1>6. opLock <= worker'
  BY <1>1, <1>2 DEF WorkerInv
<1>7. QED
  BY <1>1, <1>3, <1>4, <1>5, <1>6 DEF WorkerInv

(* While no task was cancelled: every restart has published its mutex, the *)
(* operations nobody awaits are cancels that were given up, of streams     *)
(* that are neither the manager's nor closed, and an operation runs under  *)
(* the mutex of the worker it reached.                                     *)
LeftAlone(o) ==
  /\ o.kind = "cancel" /\ o.arg # stream
  /\ \A t \in Task : o.arg # local[t]
QuietInv ==
  abandons = 0 =>
    /\ lateRestarts = 0 /\ worker = opLock
    /\ \A i \in Slot : op[i].st \in Busy =>
         /\ op[i].owner = None => LeftAlone(op[i])
         /\ op[i].arg \notin closed
         /\ op[i].st = "running" => op[i].inc = op[i].mutex

(* ... and while nothing failed either, every open stream of the running   *)
(* worker is the manager's, a task's or a result's, or is about to go with *)
(* the worker.                                                             *)
Kept(s) ==
  \/ s = stream \/ s \in closed \/ born[s] # worker
  \/ \E t \in Task : s = local[t] \/ pc[t] = "restartC"
  \/ \E i \in Slot : HasCreated(op[i]) /\ op[i].arg = s
KeptInv ==
  /\ faults = 0 => /\ \A i \in Slot : op[i].st \notin Failed
                   /\ \A t \in Task : pc[t] # "restartR"
  /\ abandons = 0 /\ faults = 0 /\ HasRestart =>
       \A s \in 1 .. nstreams : Kept(s)

(* Without cancelled tasks: the lock holder, ...                           *)
LEMMA WorkQuiet ==
  ASSUME TypeOK, HolderInv, OwnInv, StreamInv, StreamInv', QuietInv,
         NEW t \in Task, NEW at \in PCs, WorkStep(t, at)
  PROVE  QuietInv'
<1> USE DEF NoStream
<1>1. /\ \A u \in Task : u # t => local'[u] = local[u]
      /\ \A j \in Slot : \/ op'[j].st = "free" \/ GivenUp(t, j)
                         \/ Starts(t, at, j)
      /\ Alone(t)
  BY WorkOps
<1>2. SUFFICES ASSUME abandons' = 0
               PROVE  /\ lateRestarts' = 0 /\ worker' = opLock'
                      /\ \A j \in Slot : op'[j].st \in Busy =>
                           /\ op'[j].owner = None => LeftAlone(op[j])'
                           /\ op'[j].arg \notin closed'
                           /\ op'[j].st = "running" => op'[j].inc = op'[j].mutex
  BY DEF QuietInv
<1>3. /\ abandons = 0
      /\ lateRestarts = 0 /\ worker = opLock
      /\ \A i \in Slot : op[i].st \in Busy =>
           /\ op[i].owner = None => LeftAlone(op[i])
           /\ op[i].arg \notin closed
           /\ op[i].st = "running" => op[i].inc = op[i].mutex
  BY <1>2 DEF WorkStep, QuietInv
<1>4. lateRestarts' = 0 /\ worker' = opLock'
  BY <1>3 DEF WorkStep, Plain, Takes, Closes, Claims, Settles, Bumps, Restarts
<1>5. ASSUME NEW u \in Task, u # t
      PROVE  local'[u] = 0
  BY <1>1, <1>5 DEF Alone, OwnInv, AwaitsFit
<1>6. /\ local'[t] \in {local[t], stream, 0}
      /\ closed' \subseteq closed \cup {stream, local[t]}
      /\ \/ stream' \in {stream, 0}
         \/ Claims(t, at)
  BY DEF WorkStep, Plain, Takes, Closes, Claims, Settles, Bumps, Restarts,
         LeavesLocal, CloseStream, TypeOK
<1>7. ASSUME Claims(t, at), NEW j \in Slot, op[j].st \in Busy
      PROVE  op[j].arg # stream'
  <2>1. awaits[t] \in Slot /\ HasCreated(op[awaits[t]])
    BY <1>7, NoneFresh DEF Claims, OwnInv, AwaitsFit, Creating, Working,
       KindAt, HasCreated, TypeOK
  <2>2. QED
    BY <1>7, <2>1 DEF Claims, StreamInv, ResultsFresh
<1>8. ASSUME NEW j \in Slot, GivenUp(t, j)
      PROVE  /\ LeftAlone(op[j])'
             /\ op'[j].arg \notin closed'
             /\ op'[j].st = "running" => op'[j].inc = op'[j].mutex
  <2>1. /\ Same(op[j], op'[j]) /\ op[j].st \in Busy
        /\ op[j].owner = None \/ (pc[t] = "cancel" /\ j = awaits[t] /\ LeavesLocal(t))
    BY <1>8 DEF GivenUp, Outlives
  <2>2. op[j].arg \notin closed /\ (op[j].st = "running" => op[j].inc = op[j].mutex)
    BY <1>3, <2>1
  <2>3. CASE op[j].owner = None
    <3>1. /\ op[j].kind = "cancel" /\ op[j].arg # stream
          /\ op[j].arg # local[t] /\ op[j].arg # 0
      BY <1>3, <2>1, <2>3 DEF LeftAlone, StreamInv, ArgsFit
    <3>2. op[j].arg # stream'
      BY <1>6, <1>7, <2>1, <3>1
    <3>3. \A u \in Task : op[j].arg # local'[u]
      BY <1>5, <1>6, <3>1
    <3>4. op[j].arg \notin closed'
      BY <1>6, <2>2, <3>1
    <3>5. QED
      BY <2>1, <2>2, <3>1, <3>2, <3>3, <3>4 DEF Same, LeftAlone
  <2>4. CASE pc[t] = "cancel" /\ j = awaits[t] /\ LeavesLocal(t)
    <3>1. /\ op[j].kind = "cancel" /\ op[j].arg = local[t] /\ local[t] # 0
          /\ local[t] # stream
      BY <2>4 DEF OwnInv, AwaitsFit, Working, KindAt, Creating, StreamInv,
         ArgsFit, StreamsFit
    <3>2. op[j].st \notin Results \cup {"retired"} \cup Failed
      BY <2>1 DEF Busy, Results, Failed
    <3>3. closed' = closed /\ stream' = stream
      BY <2>4, <3>2 DEF WorkStep, Plain, Takes, Closes, Claims, Settles, Bumps,
         Restarts, Creating, Restarting, Uses
    <3>4. \A u \in Task : local'[u] = 0
      BY <1>5, <2>4 DEF LeavesLocal, TypeOK
    <3>5. QED
      BY <2>1, <2>2, <3>1, <3>3, <3>4 DEF Same, LeftAlone
  <2>5. QED
    BY <2>1, <2>3, <2>4
<1>9. ASSUME NEW j \in Slot, Starts(t, at, j)
      PROVE  /\ op'[j].owner # None /\ op'[j].arg \notin closed'
             /\ op'[j].st # "running"
  <2>1. /\ op'[j].owner = t /\ op'[j].st = "queued"
        /\ op'[j].arg = Subject(t, at)
    BY <1>9 DEF Starts, Submitted
  <2>2. stream' \notin closed' /\ 0 \notin closed'
    BY DEF StreamInv, StreamsFit
  <2>3. CASE at = "cancel"
    <3>1. local'[t] = stream /\ closed' = closed
      BY <2>3 DEF WorkStep, Plain, Takes, Closes, Claims, Settles, Bumps,
         Restarts, TypeOK
    <3>2. Subject(t, at) = stream /\ stream \notin closed
      BY <2>3, <3>1 DEF Subject, Creating, StreamInv, StreamsFit
    <3>3. QED
      BY <2>1, <3>1, <3>2, NoneFresh
  <2>4. CASE at # "cancel"
    BY <2>1, <2>2, <2>4, NoneFresh DEF Subject
  <2>5. QED
    BY <2>3, <2>4
<1>10. QED
  BY <1>1, <1>4, <1>8, <1>9 DEF Busy

(* ... and the threads.                                                    *)
LEMMA ThreadQuiet ==
  ASSUME TypeOK, OwnInv, StreamInv, EpochInv, QuietInv, NEW i \in Slot,
         ThreadStep(i)
  PROVE  QuietInv'
<1>1. UNCHANGED <<abandons, lateRestarts, worker, opLock, opEpoch, stream,
                  closed, local>>
  BY DEF ThreadStep, tasks
<1>2. SUFFICES ASSUME abandons = 0, NEW j \in Slot, op'[j].st \in Busy
               PROVE  /\ op'[j].owner = None => LeftAlone(op'[j])
                      /\ op'[j].arg \notin closed
                      /\ op'[j].st = "running" => op'[j].inc = op'[j].mutex
  BY <1>1 DEF QuietInv, LeftAlone
<1>3. /\ worker = opLock
      /\ \A k \in Slot : op[k].st \in Busy =>
           /\ op[k].owner = None => LeftAlone(op[k])
           /\ op[k].arg \notin closed
           /\ op[k].st = "running" => op[k].inc = op[k].mutex
  BY <1>2 DEF QuietInv
<1>4. CASE j # i
  BY <1>2, <1>3, <1>4, ThreadOps
<1>5. CASE j = i
  <2>1. /\ op[i].st \in Busy
        /\ op'[i].owner = op[i].owner /\ op'[i].kind = op[i].kind
        /\ op'[i].mutex = op[i].mutex /\ op'[i].arg = op[i].arg
        /\ op'[i].inc = worker /\ Runs(i)
    BY <1>2, <1>5, ThreadOps DEF NoOp, Busy, Failed
  <2>2. op[i].mutex = opLock
    <3>1. CASE op[i].owner # None
      BY <2>1, <3>1 DEF EpochInv
    <3>2. CASE op[i].owner = None
      <4>1. op[i].retire
        BY <1>3, <2>1, <3>2 DEF LeftAlone, OwnInv, OwnersAgree
      <4>2. op[i].epoch = opEpoch
        BY <2>1, <4>1 DEF Runs, Retired
      <4>3. QED
        BY <2>1, <4>2 DEF EpochInv
    <3>3. QED
      BY <3>1, <3>2
  <2>3. QED
    BY <1>3, <1>5, <2>1, <2>2 DEF LeftAlone
<1>6. QED
  BY <1>4, <1>5

(* Without failures too: the lock holder loses no stream, ...              *)
LEMMA WorkKept ==
  ASSUME TypeOK, HolderInv, OwnInv, StreamInv, EpochInv, WorkerInv, KeptInv,
         NEW t \in Task, NEW at \in PCs, WorkStep(t, at)
  PROVE  KeptInv'
<1> USE DEF NoStream
<1>1. /\ \A u \in Task : u # t => pc'[u] = pc[u] /\ local'[u] = local[u]
      /\ \A j \in Slot : \/ op'[j].st = "free" \/ GivenUp(t, j)
                         \/ Starts(t, at, j)
      /\ Alone(t) /\ pc'[t] = at
  BY WorkOps
<1>2. faults \in Nat /\ (faults' = 0 => faults = 0 /\ faults' = faults)
  BY DEF WorkStep, TypeOK
<1>3. ASSUME faults' = 0, NEW j \in Slot
      PROVE  op'[j].st \notin Failed
  BY <1>1 DEF GivenUp, Outlives, Same, Starts, Submitted, Busy, Failed
<1>4. ASSUME NEW u \in Task, u # t
      PROVE  local[u] = 0 /\ pc[u] \notin Restarting
  BY <1>1, <1>4 DEF Alone, OwnInv, AwaitsFit, Restarting
<1>5. pc[t] \in Working => awaits[t] \in Slot
  BY NoneFresh DEF OwnInv, AwaitsFit, TypeOK
<1>6. ASSUME faults' = 0, NEW u \in Task, pc'[u] = "restartR"
      PROVE  FALSE
  <2>1. u = t /\ at = "restartR"
    BY <1>1, <1>4, <1>6 DEF Restarting
  <2>2. pc[t] = "rebuild" /\ op[awaits[t]].st \in Failed
    BY <2>1 DEF WorkStep, Plain, Takes, Closes, Claims, Settles, Bumps,
       Restarts, Restarting
  <2>3. QED
    BY <1>2, <1>5, <1>6, <2>2 DEF KeptInv, Working
<1>7. ASSUME abandons' = 0, faults' = 0, HasRestart, NEW s \in 1 .. nstreams'
      PROVE  Kept(s)'
  <2>1. /\ abandons = 0 /\ faults = 0 /\ s \in 1 .. nstreams /\ s # 0
        /\ born' = born /\ nstreams \in Nat
    BY <1>2, <1>7 DEF WorkStep, TypeOK
  <2>2. Kept(s)
    BY <1>7, <2>1 DEF KeptInv
  <2>3. ASSUME HasCreated(op[awaits[t]]), pc[t] \in Creating
        PROVE  Claims(t, at)
    <3>1. op[awaits[t]].st \notin Failed
      BY <2>3 DEF HasCreated, Failed
    <3>2. QED
      BY <2>3, <3>1 DEF WorkStep, Plain, Takes, Closes, Settles, Bumps,
         Restarts, Creating, Restarting
  <2>4. CASE s = stream
    <3>1. pc[t] \notin Creating
      BY <2>1, <2>4 DEF StreamInv, StreamsFit
    <3>2. \/ stream' = stream \/ local'[t] = stream \/ s \in closed'
      BY <2>4, <2>1, <3>1 DEF WorkStep, Plain, Takes, Closes, Claims, Settles,
         Bumps, Restarts, CloseStream, TypeOK
    <3>3. QED
      BY <2>4, <3>2 DEF Kept
  <2>5. CASE s \in closed
    <3>1. closed \subseteq closed'
      BY DEF WorkStep, Plain, Takes, Closes, Claims, Settles, Bumps, Restarts,
         CloseStream
    <3>2. QED
      BY <2>5, <3>1 DEF Kept
  <2>6. CASE worker' # worker \/ born[s] # worker
    <3>1. worker' = worker \/ worker' = worker + 1
      BY DEF WorkStep, Plain, Takes, Closes, Claims, Settles, Bumps, Restarts
    <3>2. born[s] \in Nat /\ worker \in Nat /\ born[s] <= worker
      BY <2>1, BornType DEF WorkerInv, TypeOK
    <3>3. born[s] # worker'
      BY <2>6, <3>1, <3>2
    <3>4. QED
      BY <2>1, <3>3 DEF Kept
  <2>7. CASE s = local[t]
    <3>1. pc[t] \in {"cancel", "restartC"}
      BY <2>1, <2>7 DEF OwnInv, AwaitsFit
    <3>2. op[awaits[t]].st # "retired" \/ pc[t] # "cancel"
      BY <1>5 DEF EpochInv, Working
    <3>3. \/ local'[t] = local[t] \/ local[t] \in closed' \/ at = "restartC"
      BY <1>7, <2>1, <2>7, <3>1, <3>2 DEF WorkStep, Plain, Takes, Closes,
         Claims, Settles, Bumps, Restarts, Creating, Restarting, Uses
    <3>4. QED
      BY <1>1, <2>7, <3>3 DEF Kept
  <2>8. CASE pc[t] = "restartC"
    <3>1. worker \in Nat /\ worker' = worker + 1
      <4>1. PICK ok \in BOOLEAN : Restarts(t, at, ok)
        BY <2>8 DEF WorkStep, Plain, Takes, Closes, Claims, Settles, Bumps,
           Creating, Restarting, Uses
      <4>2. ok
        BY <1>2, <1>7, <4>1 DEF Restarts
      <4>3. QED
        BY <4>1, <4>2 DEF Restarts, TypeOK
    <3>2. QED
      BY <2>6, <3>1
  <2>9. ASSUME NEW j \in Slot, HasCreated(op[j]), op[j].arg = s
        PROVE  Kept(s)'
    <3>1. op[j].owner \in Task /\ awaits[op[j].owner] = j
      BY <2>9 DEF HasCreated, Results, OwnInv, OwnersAgree, TypeOK, Op
    <3>2. pc[op[j].owner] \in Working /\ KindAt(pc[op[j].owner]) = "create"
      BY <2>9, <3>1, NoneFresh DEF OwnInv, AwaitsFit, HasCreated
    <3>3. op[j].owner = t /\ pc[t] \in Creating
      BY <1>1, <3>1, <3>2 DEF Alone, Working, KindAt, Creating
    <3>4. Claims(t, at)
      BY <2>3, <2>9, <3>1, <3>3
    <3>5. stream' = s
      BY <2>9, <3>1, <3>3, <3>4 DEF Claims
    <3>6. QED
      BY <3>5 DEF Kept
  <2>10. QED
    <3>1. \/ s = stream \/ s \in closed \/ born[s] # worker
          \/ \E u \in Task : s = local[u] \/ pc[u] = "restartC"
          \/ \E j \in Slot : HasCreated(op[j]) /\ op[j].arg = s
      BY <2>2 DEF Kept
    <3>2. ASSUME NEW u \in Task, s = local[u] \/ pc[u] = "restartC"
          PROVE  u = t
      BY <1>4, <2>1, <3>2 DEF Restarting
    <3>3. QED
      BY <2>4, <2>5, <2>6, <2>7, <2>8, <2>9, <3>1, <3>2
<1>8. QED
  BY <1>3, <1>6, <1>7 DEF KeptInv

(* ... and no thread does.                                                 *)
LEMMA ThreadKept ==
  ASSUME TypeOK, OwnInv, StreamInv, QuietInv, KeptInv, NEW i \in Slot,
         ThreadStep(i)
  PROVE  KeptInv'
<1>1. UNCHANGED <<abandons, worker, stream, closed, local, pc>>
  BY DEF ThreadStep, tasks
<1>2. faults \in Nat /\ (faults' = 0 => faults = 0 /\ faults' # faults + 1)
  BY DEF ThreadStep, TypeOK
<1>3. /\ \A j \in Slot : j # i => op'[j] = op[j]
      /\ op[i].st \in Busy
  BY ThreadOps
<1>4. ASSUME faults' = 0, NEW j \in Slot
      PROVE  op'[j].st \notin Failed
  <2>1. op'[i].st \notin Failed
    BY <1>2, <1>4, ThreadOps DEF NoOp, Failed
  <2>2. QED
    BY <1>2, <1>3, <1>4, <2>1 DEF KeptInv
<1>5. \/ NoBirth
      \/ /\ nstreams' = nstreams + 1 /\ Births(i)
         /\ \A s \in 1 .. nstreams : born'[s] = born[s]
         /\ \/ op'[i] = NoOp /\ op[i].owner = None
            \/ HasCreated(op'[i]) /\ op'[i].arg = nstreams + 1
  <2>1. CASE Births(i) /\ (Vanishes(i) \/ Creates(i))
    <3>1. born' = Append(born, op[i].inc) /\ Len(born) = nstreams
          /\ born \in Seq(Nat) /\ op[i].inc \in Nat /\ op[i] \in Op
          /\ nstreams \in Nat /\ op \in [Slot -> Op]
      BY <2>1 DEF Births, TypeOK, Op
    <3>2. \A s \in 1 .. nstreams : born'[s] = born[s]
      BY <3>1
    <3>3. Vanishes(i) => op'[i] = NoOp /\ op[i].owner = None
      BY <3>1 DEF Vanishes
    <3>4. Creates(i) => HasCreated(op'[i]) /\ op'[i].arg = nstreams + 1
      BY <2>1, <3>1 DEF Creates, HasCreated, Births, Op
    <3>5. QED
      BY <2>1, <3>2, <3>3, <3>4 DEF Births
  <2>2. QED
    BY <2>1 DEF ThreadStep
<1>6. ASSUME abandons = 0, faults' = 0, HasRestart, NEW s \in 1 .. nstreams'
      PROVE  Kept(s)'
  <2>1. nstreams \in Nat
    BY DEF TypeOK
  <2>2. CASE s \in 1 .. nstreams
    <3>1. Kept(s) /\ born'[s] = born[s]
      BY <1>2, <1>5, <1>6, <2>2 DEF KeptInv, NoBirth
    <3>2. ASSUME NEW j \in Slot, HasCreated(op[j])
          PROVE  op'[j] = op[j]
      BY <1>3, <3>2 DEF HasCreated, Busy
    <3>3. QED
      BY <1>1, <3>1, <3>2 DEF Kept
  <2>3. CASE s \notin 1 .. nstreams
    <3>1. s = nstreams + 1 /\ Births(i)
      BY <1>5, <1>6, <2>1, <2>3 DEF NoBirth
    <3>2. op[i].owner # None
      BY <1>3, <1>6, <3>1 DEF QuietInv, LeftAlone, Births
    <3>3. HasCreated(op'[i]) /\ op'[i].arg = nstreams + 1
      BY <1>5, <2>1, <3>1, <3>2 DEF NoBirth, Births
    <3>4. QED
      BY <3>1, <3>3 DEF Kept
  <2>4. QED
    BY <2>2, <2>3
<1>7. QED
  BY <1>1, <1>2, <1>4, <1>6 DEF KeptInv

(* All of it, which is inductive.                                          *)
ExecutorInv ==
  /\ OwnInv /\ StreamInv /\ MutexInv /\ EpochInv /\ WorkerInv
  /\ QuietInv /\ KeptInv

(* A step of the lock holder keeps ExecutorInv, ...                        *)
LEMMA WorkKeeps ==
  ASSUME TypeOK, HolderInv, ExecutorInv, NEW t \in Task,
         \E at \in PCs : WorkStep(t, at)
  PROVE  ExecutorInv'
<1>1. PICK at \in PCs : WorkStep(t, at)
  OBVIOUS
<1>2. /\ OwnInv /\ StreamInv /\ MutexInv /\ EpochInv /\ WorkerInv
      /\ QuietInv /\ KeptInv
  BY DEF ExecutorInv
<1>3. OwnInv'
  BY <1>1, <1>2, WorkOwn
<1>4. StreamInv'
  BY <1>1, <1>2, WorkStreams
<1>5. MutexInv'
  BY <1>1, <1>2, <1>4, WorkMutex
<1>6. EpochInv'
  BY <1>1, <1>2, WorkEpoch
<1>7. WorkerInv'
  BY <1>1, <1>2, <1>4, WorkWorker
<1>8. QuietInv'
  BY <1>1, <1>2, <1>4, WorkQuiet
<1>9. KeptInv'
  BY <1>1, <1>2, WorkKept
<1>10. QED
  BY <1>3, <1>4, <1>5, <1>6, <1>7, <1>8, <1>9 DEF ExecutorInv

(* ... so does a step of a thread, ...                                     *)
LEMMA ThreadKeeps ==
  ASSUME TypeOK, ExecutorInv, NEW i \in Slot, ThreadNext(i)
  PROVE  ExecutorInv'
<1>1. ThreadStep(i)
  BY ThreadKinds
<1>2. /\ OwnInv /\ StreamInv /\ MutexInv /\ EpochInv /\ WorkerInv
      /\ QuietInv /\ KeptInv
  BY DEF ExecutorInv
<1>3. OwnInv' /\ StreamInv'
  BY <1>1, <1>2, ThreadOwn, ThreadStreams
<1>4. MutexInv' /\ EpochInv'
  BY <1>1, <1>2, ThreadMutex, ThreadEpoch
<1>5. WorkerInv' /\ QuietInv' /\ KeptInv'
  BY <1>1, <1>2, ThreadWorker, ThreadQuiet, ThreadKept
<1>6. QED
  BY <1>3, <1>4, <1>5 DEF ExecutorInv

(* ... a task given up at an await, ...                                    *)
LEMMA AbandonKeeps ==
  ASSUME TypeOK, ExecutorInv, NEW t \in Task, Abandon(t)
  PROVE  ExecutorInv'
<1>1. /\ OwnInv /\ StreamInv /\ MutexInv /\ EpochInv /\ WorkerInv
      /\ QuietInv /\ KeptInv
  BY DEF ExecutorInv
<1>2. Lets(t) /\ OwnInv'
  BY <1>1, AbandonLets
<1>3. StreamInv' /\ MutexInv' /\ EpochInv' /\ WorkerInv'
  BY <1>1, <1>2, LetsStreams, LetsMutex, LetsEpoch, LetsWorker
<1>4. abandons' # 0
  BY <1>2 DEF Lets, TypeOK
<1>5. QuietInv'
  BY <1>4 DEF QuietInv
<1>6. KeptInv'
  <2>1. faults' = faults /\ \A u \in Task : pc'[u] \in {pc[u], "idle"}
    BY <1>2 DEF Lets
  <2>2. ASSUME NEW j \in Slot, op'[j].st \in Failed
        PROVE  op[j].st \in Failed
    BY <1>2, <2>2 DEF Lets, Outlives, Same, NoOp, Failed
  <2>3. QED
    BY <1>1, <1>4, <2>1, <2>2 DEF KeptInv
<1>7. QED
  BY <1>2, <1>3, <1>5, <1>6 DEF ExecutorInv

(* ... a call, ...                                                         *)
LEMMA InvokeKeeps ==
  ASSUME TypeOK, ExecutorInv, NEW t \in Task, NEW k \in Call, Invoke(t, k)
  PROVE  ExecutorInv'
<1>1. /\ UNCHANGED <<mstate, stream, opEpoch, opLock, awaits, local, op,
                     nstreams, closed, worker, born, lateRestarts, abandons>>
      /\ pc[t] = "idle" /\ pc' = [pc EXCEPT ![t] = "lock"]
      /\ faults' = faults \/ faults' = faults + 1
  BY DEF Invoke, native
<1>2. \A u \in Task : \/ pc'[u] = pc[u]
                      \/ pc[u] = "idle" /\ pc'[u] = "lock"
  BY <1>1 DEF TypeOK
<1>3. OwnInv'
  BY <1>1, <1>2 DEF ExecutorInv, OwnInv, OwnersAgree, AwaitsFit, Working
<1>4. StreamInv'
  BY <1>1, <1>2 DEF ExecutorInv, StreamInv, StreamsFit, ArgsFit, ResultsFresh,
     HasCreated, Creating, Uses
<1>5. MutexInv' /\ WorkerInv' /\ QuietInv'
  BY <1>1 DEF ExecutorInv, MutexInv, WorkerInv, QuietInv, LeftAlone, HasCreated
<1>6. EpochInv'
  BY <1>1, <1>2 DEF ExecutorInv, EpochInv, Restarting
<1>7. KeptInv'
  <2>1. faults' = 0 => faults = 0
    BY <1>1 DEF TypeOK
  <2>2. ASSUME NEW s, Kept(s)
        PROVE  Kept(s)'
    BY <1>1, <1>2, <2>2 DEF Kept, HasCreated
  <2>3. QED
    BY <1>1, <1>2, <2>1, <2>2 DEF ExecutorInv, KeptInv
<1>8. QED
  BY <1>3, <1>4, <1>5, <1>6, <1>7 DEF ExecutorInv

(* ... and the end of a restart whose caller is gone.                      *)
LEMMA LateKeeps ==
  ASSUME TypeOK, ExecutorInv, NEW ok \in BOOLEAN, LateRestart(ok)
  PROVE  ExecutorInv'
<1>1. UNCHANGED <<mstate, stream, opEpoch, opLock, pc, awaits, local, op,
                  nstreams, closed, born, faults, abandons>>
  BY DEF LateRestart, manager, tasks
<1>2. OwnInv'
  BY <1>1 DEF ExecutorInv, OwnInv, OwnersAgree, AwaitsFit
<1>3. StreamInv'
  BY <1>1 DEF ExecutorInv, StreamInv, StreamsFit, ArgsFit, ResultsFresh,
     HasCreated
<1>4. MutexInv' /\ EpochInv'
  BY <1>1 DEF ExecutorInv, MutexInv, EpochInv
<1>5. WorkerInv'
  BY LateWorker DEF ExecutorInv
<1>6. abandons # 0
  BY DEF LateRestart, ExecutorInv, QuietInv
<1>7. QuietInv' /\ KeptInv'
  BY <1>1, <1>6 DEF ExecutorInv, QuietInv, KeptInv
<1>8. QED
  BY <1>2, <1>3, <1>4, <1>5, <1>7 DEF ExecutorInv

(* Nothing changes when no variable does.                                  *)
LEMMA ExecutorStays ==
  ASSUME ExecutorInv, UNCHANGED vars
  PROVE  ExecutorInv'
<1> USE DEF vars, manager, tasks, native, ExecutorInv
<1>1. OwnInv'
  BY DEF OwnInv, OwnersAgree, AwaitsFit
<1>2. StreamInv'
  BY DEF StreamInv, StreamsFit, ArgsFit, ResultsFresh, HasCreated
<1>3. MutexInv' /\ EpochInv' /\ WorkerInv'
  BY DEF MutexInv, EpochInv, WorkerInv, HasCreated
<1>4. QuietInv' /\ KeptInv'
  BY DEF QuietInv, LeftAlone, KeptInv, Kept, HasCreated
<1>5. QED
  BY <1>1, <1>2, <1>3, <1>4

(* ExecutorInv is inductive, given TypeOK and HolderInv.                   *)
LEMMA ExecutorStep ==
  TypeOK /\ HolderInv /\ ExecutorInv /\ [Next]_vars => ExecutorInv'
<1> SUFFICES ASSUME TypeOK, HolderInv, ExecutorInv, [Next]_vars
             PROVE  ExecutorInv'
  OBVIOUS
<1>1. OwnInv
  BY DEF ExecutorInv
<1>2. ASSUME NEW t \in Task, TaskNext(t)
      PROVE  ExecutorInv'
  <2>1. CASE \E k \in Call : Invoke(t, k)
    BY <2>1, InvokeKeeps
  <2>2. CASE Enter(t)
    BY <1>1, <2>2, EnterKinds, WorkKeeps
  <2>3. CASE Continue(t)
    BY <1>1, <2>3, ContinueKinds, WorkKeeps
  <2>4. CASE Abandon(t)
    BY <2>4, AbandonKeeps
  <2>5. QED
    BY <1>2, <2>1, <2>2, <2>3, <2>4 DEF TaskNext
<1>3. ASSUME NEW i \in Slot, ThreadNext(i)
      PROVE  ExecutorInv'
  BY <1>3, ThreadKeeps
<1>4. CASE \E ok \in BOOLEAN : LateRestart(ok)
  BY <1>4, LateKeeps
<1>5. CASE UNCHANGED vars
  BY <1>5, ExecutorStays
<1>6. QED
  BY <1>2, <1>3, <1>4, <1>5 DEF Next

(* It holds initially, ...                                                 *)
LEMMA ExecutorInit == Init => ExecutorInv
<1> SUFFICES ASSUME Init
             PROVE  ExecutorInv
  OBVIOUS
<1> USE DEF Init, NoStream
<1>1. \A i \in Slot : op[i] = NoOp
  OBVIOUS
<1>2. /\ NoOp.st = "free" /\ NoOp.owner = None /\ NoOp.kind = "create"
      /\ NoOp.retire = FALSE
  BY DEF NoOp
<1>3. \A t \in Task : pc[t] = "idle" /\ awaits[t] = None /\ local[t] = 0
  OBVIOUS
<1>4. OwnInv
  BY <1>1, <1>2, <1>3 DEF OwnInv, OwnersAgree, AwaitsFit, Working, Results
<1>5. StreamInv
  BY <1>1, <1>2, <1>3 DEF StreamInv, StreamsFit, ArgsFit, ResultsFresh,
     HasCreated, Busy, Uses, Creating
<1>6. MutexInv /\ EpochInv /\ WorkerInv
  BY <1>1, <1>2, <1>3 DEF MutexInv, EpochInv, WorkerInv, HasCreated, Busy,
     Restarting
<1>7. QuietInv /\ KeptInv
  BY <1>1, <1>2, <1>3 DEF QuietInv, KeptInv, Busy, Failed
<1>8. QED
  BY <1>4, <1>5, <1>6, <1>7 DEF ExecutorInv

(* ... and always.                                                         *)
LEMMA ExecutorCorrect == Spec => []ExecutorInv
BY ExecutorInit, ExecutorStep, TypeCorrect, HolderCorrect, PTL DEF Spec

(* Two executor threads are never inside one native stream at once: also   *)
(* not after the task that submitted one of the operations was cancelled   *)
(* and released the lock, which is what _worker_op_lock is for.            *)
THEOREM OneOpCorrect == Spec => []OneOpPerStream
<1>1. ExecutorInv => OneOpPerStream
  BY DEF ExecutorInv, MutexInv, OneOpPerStream, Busy
<1>2. QED
  BY <1>1, ExecutorCorrect, PTL

(* A cancel call reaches no worker newer than the one it was submitted for, *)
(* but through restarts whose own caller was cancelled meanwhile.          *)
THEOREM CancelCorrect == Spec => []CancelStaysInIncarnation
<1>1. TypeOK /\ ExecutorInv => CancelStaysInIncarnation
  <2> SUFFICES ASSUME TypeOK, ExecutorInv, NEW i \in Slot,
                      op[i].st = "running", op[i].kind = "cancel"
               PROVE  op[i].inc - born[op[i].arg] <= worker - opLock
    BY DEF CancelStaysInIncarnation
  <2>1. born[op[i].arg] \in Nat
    BY CancelArg, BornType DEF ExecutorInv, Busy
  <2>2. op[i].inc \in Nat /\ worker \in Nat /\ opLock \in Nat
    BY DEF TypeOK, Op
  <2>3. op[i].inc + opLock <= worker + born[op[i].arg]
    BY DEF ExecutorInv, WorkerInv
  <2>4. QED
    BY <2>1, <2>2, <2>3
<1>2. QED
  BY <1>1, ExecutorCorrect, TypeCorrect, PTL

(* An ACTIVE manager has an open stream of the running worker, and while   *)
(* nothing failed and no task was cancelled no stream is lost.             *)
THEOREM KeptCorrect == Spec => []StreamsKept
<1>1. TypeOK /\ HolderInv /\ ExecutorInv => StreamsKept
  <2> SUFFICES ASSUME TypeOK, HolderInv, ExecutorInv
               PROVE  StreamsKept
    OBVIOUS
  <2> USE DEF ExecutorInv
  <2>1. ActiveHasStream
    <3>1. SUFFICES ASSUME mstate = "active"
                   PROVE  /\ stream # NoStream /\ stream \notin closed
                          /\ abandons = 0 => born[stream] = worker
      BY DEF ActiveHasStream
    <3>2. stream # NoStream /\ stream \notin closed /\ stream \in 0 .. nstreams
      BY <3>1 DEF StreamInv, StreamsFit
    <3>3. stream \in 1 .. nstreams
      BY <3>2 DEF NoStream, TypeOK
    <3>4. /\ opLock <= born[stream] /\ born[stream] <= worker
          /\ abandons = 0 => worker = opLock
      BY <3>2, <3>3 DEF WorkerInv, QuietInv
    <3>5. opLock \in Nat /\ worker \in Nat /\ born[stream] \in Nat
      BY <3>3, BornType DEF TypeOK
    <3>6. QED
      BY <3>2, <3>4, <3>5
  <2>2. NoStreamLost
    <3>1. SUFFICES ASSUME lock = None, abandons = 0, faults = 0, HasRestart,
                          NEW s \in 1 .. nstreams
                   PROVE  s = stream \/ s \in closed \/ born[s] # worker
      BY DEF NoStreamLost
    <3>2. \A t \in Task : pc[t] \in {"idle", "lock"}
      BY <3>1, NoneFresh DEF HolderInv
    <3>3. ASSUME NEW t \in Task
          PROVE  local[t] # s /\ pc[t] # "restartC"
      BY <3>1, <3>2 DEF OwnInv, AwaitsFit, NoStream
    <3>4. ASSUME NEW i \in Slot
          PROVE  ~HasCreated(op[i])
      <4>1. SUFFICES ASSUME HasCreated(op[i])
                     PROVE  FALSE
        OBVIOUS
      <4>2. op[i].owner \in Task /\ awaits[op[i].owner] # None
        BY <4>1, NoneFresh DEF HasCreated, Results, OwnInv, OwnersAgree, TypeOK,
           Op
      <4>3. QED
        BY <3>2, <4>2 DEF OwnInv, AwaitsFit, Working
    <3>5. Kept(s)
      BY <3>1 DEF KeptInv
    <3>6. QED
      BY <3>3, <3>4, <3>5 DEF Kept
  <2>3. QED
    BY <2>1, <2>2 DEF StreamsKept
<1>2. QED
  BY <1>1, ExecutorCorrect, TypeCorrect, HolderCorrect, PTL

(* While no task was cancelled at an await, a worker runs one operation at *)
(* a time, none of them on a closed stream: whatever fails, times out or   *)
(* is restarted.                                                           *)
THEOREM WorkerOpsCorrect == Spec => []WorkerOpsSafe
<1>1. ExecutorInv => WorkerOpsSafe
  <2> SUFFICES ASSUME ExecutorInv, abandons = 0
               PROVE  OneOpPerWorker /\ NoOpOnClosedStream
    BY DEF WorkerOpsSafe
  <2>1. ASSUME NEW i \in Slot, op[i].st = "running"
        PROVE  op[i].inc = op[i].mutex /\ op[i].arg \notin closed
    BY <2>1 DEF ExecutorInv, QuietInv, Busy
  <2>2. QED
    BY <2>1 DEF ExecutorInv, MutexInv, OneOpPerWorker, NoOpOnClosedStream
<1>2. QED
  BY <1>1, ExecutorCorrect, PTL
=============================================================================
