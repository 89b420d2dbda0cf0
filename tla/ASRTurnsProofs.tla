--------------------------- MODULE ASRTurnsProofs ---------------------------
(***************************************************************************)
(* Proofs that the listening half of a Session recognises every frame once *)
(* and in order, and hands every turn to the LLM once and in order, for    *)
(* any number of frames, of client events and of backend faults, any ring  *)
(* and any configurations; and that it implements UtteranceFinals.         *)
(***************************************************************************)
EXTENDS ASRTurns, TLAPS

Sorted(s)   == \A i, j \in DOMAIN s : i < j => s[i] < s[j]
Below(s, n) == \A i \in DOMAIN s : s[i] < n
UpTo(s, n)  == \A i \in DOMAIN s : s[i] <= n

\* The frame in hand is in no stream and not in the ring.
InHand == audio \in {"barge", "open", "preroll", "feed"}

\* A frame opens one turn at most.
Counted ==
  /\ mgen <= frame
  /\ audio \in {"barge", "open"} => mgen < frame
  /\ InHand => frame # 0

\* The finalize of the loop runs under the manager's lock.
LoopHolds == loop = "final" => Holds("loop")

\* The ring lies behind everything heard, and the frame in hand behind both; the
\* ring is empty whenever a frame may go to a stream.
RingBehind ==
  /\ Sorted(heard) /\ Sorted(ring)
  /\ UpTo(heard, frame) /\ UpTo(ring, frame)
  /\ InHand => Below(heard, frame) /\ Below(ring, frame)
  /\ \A i \in DOMAIN ring : Below(heard, ring[i])
  /\ audio = "feed" \/ (active /\ audio # "preroll") => ring = <<>>

\* A turn that is open, or whose final is on its way, is a turn the manager has
\* opened; it has not been replied to, nor has a later one.
RepliesBehind ==
  /\ Sorted(replied) /\ UpTo(replied, mgen)
  /\ mstate = "active" \/ loop = "final" => mgen # 0 /\ Below(replied, mgen)

-----------------------------------------------------------------------------
(***************************************************************************)
(* Sequences of numbers.                                                   *)
(***************************************************************************)

\* A number above all others at the end of a sorted sequence.
LEMMA AppendSorted ==
  ASSUME NEW s \in Seq(Nat), NEW f \in Nat, Sorted(s), Below(s, f)
  PROVE  /\ Append(s, f) \in Seq(Nat) /\ Sorted(Append(s, f)) /\ UpTo(Append(s, f), f)
         /\ \A n \in Nat : f < n => Below(Append(s, f), n)
         /\ \A i \in DOMAIN Append(s, f) :
                Append(s, f)[i] = f \/ (i \in DOMAIN s /\ Append(s, f)[i] = s[i])
  <1> DEFINE t == Append(s, f)
  <1>1. /\ t \in Seq(Nat) /\ Len(s) \in Nat /\ DOMAIN s = 1 .. Len(s)
        /\ DOMAIN t = 1 .. Len(s) + 1 /\ t[Len(s) + 1] = f
        /\ \A i \in DOMAIN s : t[i] = s[i] /\ s[i] \in Nat
    OBVIOUS
  <1> HIDE DEF t
  <1>2. \A i \in DOMAIN t : (i = Len(s) + 1 /\ t[i] = f) \/ (i \in DOMAIN s /\ t[i] = s[i])
    BY <1>1
  <1>3. Sorted(t)
    <2> SUFFICES ASSUME NEW i \in DOMAIN t, NEW j \in DOMAIN t, i < j PROVE t[i] < t[j]
      BY DEF Sorted
    <2>1. i \in DOMAIN s /\ t[i] = s[i]
      BY <1>1
    <2> QED
      BY <1>1, <1>2, <2>1 DEF Sorted, Below
  <1>4. UpTo(t, f) /\ \A n \in Nat : f < n => Below(t, n)
    BY <1>1, <1>2 DEF Below, UpTo
  <1>5. \A i \in DOMAIN t : t[i] = f \/ (i \in DOMAIN s /\ t[i] = s[i])
    BY <1>2
  <1> QED
    BY <1>1, <1>3, <1>4, <1>5 DEF t

\* The rest of a sorted sequence.
LEMMA TailSorted ==
  ASSUME NEW s \in Seq(Nat), s # <<>>, Sorted(s)
  PROVE  /\ Tail(s) \in Seq(Nat) /\ Sorted(Tail(s))
         /\ \A i \in DOMAIN Tail(s) : i + 1 \in DOMAIN s /\ Tail(s)[i] = s[i + 1]
  <1> DEFINE t == Tail(s)
  <1>1. /\ t \in Seq(Nat) /\ DOMAIN s = 1 .. Len(s) /\ Len(s) \in Nat
        /\ DOMAIN t = 1 .. Len(s) - 1
        /\ \A i \in DOMAIN t : i + 1 \in DOMAIN s /\ t[i] = s[i + 1]
    OBVIOUS
  <1> HIDE DEF t
  <1>2. Sorted(t)
    BY <1>1 DEF Sorted
  <1> QED
    BY <1>1, <1>2 DEF t

\* Two sorted sequences, the second behind the first.
LEMMA ConcatSorted ==
  ASSUME NEW s \in Seq(Nat), NEW r \in Seq(Nat), Sorted(s), Sorted(r),
         \A i \in DOMAIN r : Below(s, r[i])
  PROVE  /\ s \o r \in Seq(Nat) /\ Sorted(s \o r)
         /\ \A n \in Nat : Below(s, n) /\ Below(r, n) => Below(s \o r, n)
  <1> DEFINE t == s \o r
  <1>1. /\ t \in Seq(Nat) /\ Len(s) \in Nat /\ Len(r) \in Nat
        /\ DOMAIN s = 1 .. Len(s) /\ DOMAIN r = 1 .. Len(r) /\ DOMAIN t = 1 .. Len(s) + Len(r)
        /\ \A i \in DOMAIN s : t[i] = s[i] /\ s[i] \in Nat
        /\ \A i \in DOMAIN t : i \notin DOMAIN s => i - Len(s) \in DOMAIN r /\ t[i] = r[i - Len(s)]
        /\ \A i \in DOMAIN r : r[i] \in Nat
    OBVIOUS
  <1> HIDE DEF t
  <1>2. Sorted(t)
    <2> SUFFICES ASSUME NEW i \in DOMAIN t, NEW j \in DOMAIN t, i < j PROVE t[i] < t[j]
      BY DEF Sorted
    <2>1. CASE i \in DOMAIN s /\ j \in DOMAIN s
      BY <1>1, <2>1 DEF Sorted
    <2>2. CASE i \in DOMAIN s /\ j \notin DOMAIN s
      BY <1>1, <2>2 DEF Below
    <2>3. CASE i \notin DOMAIN s
      <3>1. j \notin DOMAIN s /\ i \in Nat /\ j \in Nat
        BY <1>1, <2>3
      <3> QED
        BY <1>1, <2>3, <3>1 DEF Sorted
    <2> QED
      BY <2>1, <2>2, <2>3
  <1>3. ASSUME NEW n \in Nat, Below(s, n), Below(r, n) PROVE Below(t, n)
    BY <1>1, <1>3 DEF Below
  <1> QED
    BY <1>1, <1>2, <1>3 DEF t

\* Sorted is what the invariants ask for.
LEMMA SortedIncreasing == ASSUME NEW s \in Seq(Nat), Sorted(s) PROVE Increasing(s)
  BY DEF Sorted, Increasing

-----------------------------------------------------------------------------
(***************************************************************************)
(* What the variables are.                                                 *)
(***************************************************************************)

\* The conjuncts of TypeOK by the task whose state they are about.
ManagerType ==
  /\ mstate \in {"idle", "active", "finalizing", "cancelling"} /\ mgen \in Turns
  /\ lock \in Seq(Tasks) /\ preempted \in BOOLEAN /\ faults \in 0 .. MaxFaults
SharedType ==
  /\ active \in BOOLEAN /\ activeGen \in 0 .. mgen /\ expired \in BOOLEAN
  /\ endpoint \in {"none", "vad", "client_eos"} /\ endpointGen \in 0 .. mgen
  /\ endpoint = "none" => endpointGen = 0
  /\ closed \in BOOLEAN
ReceiverType ==
  /\ audio \in {"recv", "barge", "open", "preroll", "feed", "end"}
  /\ frame \in 0 .. MaxFrames /\ verdict \in {"none", "start", "end"}
  /\ speaking \in BOOLEAN /\ ring \in Seq(Frames) /\ heard \in Seq(Frames)
  /\ events \in {"recv", "barge", "cancel", "end"} /\ clients \in 0 .. MaxClient
LoopType ==
  /\ loop \in {"top", "timeout", "error", "partial", "shown", "sending",
               "slot", "finalize", "final", "reply", "end"}
  /\ polled \in Turns /\ decided \in Turns /\ finalGen \in Turns
  /\ last \in BOOLEAN /\ streamed \in Turns /\ replied \in Seq(Turns)

\* TypeOK is its parts.
LEMMA TypeParts ==
  TypeOK <=> mode \in Modes /\ ManagerType /\ SharedType /\ ReceiverType /\ LoopType
  BY DEF TypeOK, ManagerType, SharedType, ReceiverType, LoopType

\* A configuration says what it fixes, and the bounds are numbers.
LEMMA ModeType == ASSUME mode \in Modes
  PROVE mode.vad \in BOOLEAN /\ mode.multi \in BOOLEAN /\ mode.serialized \in BOOLEAN
  BY ModesType

\* The queue of the lock.
LEMMA LockType ==
  ASSUME lock \in Seq(Tasks)
  PROVE  /\ \A t \in Tasks : Append(lock, t) \in Seq(Tasks)
         /\ lock # <<>> => Tail(lock) \in Seq(Tasks)
         /\ lock # <<>> => \A t \in Tasks : Append(Tail(lock), t) \in Seq(Tasks)
  <1>1. \A t \in Tasks : Append(lock, t) \in Seq(Tasks)
    OBVIOUS
  <1>2. lock # <<>> => Tail(lock) \in Seq(Tasks)
    OBVIOUS
  <1>3. \A q \in Seq(Tasks), t \in Tasks : Append(q, t) \in Seq(Tasks)
    OBVIOUS
  <1> QED
    BY <1>1, <1>2, <1>3

\* The ring keeps frames.
LEMMA PushType ==
  ASSUME NEW r \in Seq(Frames), NEW f \in Frames PROVE Push(r, f) \in Seq(Frames)
  <1>1. Append(r, f) \in Seq(Frames) /\ Len(Append(r, f)) = Len(r) + 1 /\ Len(r) \in Nat
    OBVIOUS
  <1>2. \A q \in Seq(Frames) : q # <<>> => Tail(q) \in Seq(Frames)
    OBVIOUS
  <1>3. Append(r, f) # <<>>
    BY <1>1
  <1> QED
    BY <1>1, <1>2, <1>3 DEF Push

\* A call of accept_audio keeps the types.
LEMMA AcceptType ==
  ASSUME ManagerType, ReceiverType, NEW r \in Seq(Frames), Accept(r)
  PROVE  /\ mstate' \in {"idle", "active", "finalizing", "cancelling"}
         /\ faults' \in 0 .. MaxFaults /\ heard' \in Seq(Frames)
  <1>1. heard \o r \in Seq(Frames)
    BY DEF ReceiverType
  <1>2. CASE heard' = heard \o r /\ UNCHANGED <<mstate, faults>>
    BY <1>1, <1>2 DEF ManagerType
  <1>3. CASE Fault /\ mstate' \in {"active", "idle"} /\ UNCHANGED heard
    BY <1>3, BoundsType DEF Fault, ManagerType, ReceiverType
  <1>4. CASE UNCHANGED <<mstate, faults, heard>>
    BY <1>4 DEF ManagerType, ReceiverType
  <1> QED
    BY <1>2, <1>3, <1>4 DEF Accept

\* The tasks of the lock.
LEMMA TaskNames == "audio" \in Tasks /\ "events" \in Tasks /\ "loop" \in Tasks
  BY DEF Tasks

\* The end of a frame keeps the types of the shared state.
LEMMA EndFrameType ==
  ASSUME mode \in Modes, SharedType, EndFrame
  PROVE  /\ audio' = "recv" /\ closed' \in BOOLEAN
         /\ endpoint' \in {"none", "vad", "client_eos"} /\ endpointGen' \in 0 .. mgen
         /\ endpoint' = "none" => endpointGen' = 0
  BY ModeType DEF SharedType, EndFrame, StampEndpoint, stamp

\* The audio task between two frames.
LEMMA FrameType ==
  ASSUME TypeOK, SkipFrame \/ SpeechStart \/ LazyOpen \/ PlainFrame
  PROVE  TypeOK'
  <1> USE DEF manager, turnVars, stamp, eventVars, loopVars, carried
  <1>0. mode \in Modes /\ ManagerType /\ SharedType /\ ReceiverType /\ LoopType
    BY TypeParts
  <1>1. frame' \in 0 .. MaxFrames /\ frame' \in Frames
    BY <1>0, BoundsType
       DEF SkipFrame, SpeechStart, LazyOpen, PlainFrame, NextFrame, ReceiverType, Frames
  <1>2. CASE SkipFrame
    BY <1>0, <1>1, <1>2 DEF SkipFrame, TypeOK
  <1>5. CASE SpeechStart
    BY <1>0, <1>1, <1>5 DEF SpeechStart, TypeOK
  <1>3. CASE LazyOpen
    <2>1. lock' \in Seq(Tasks)
      BY <1>0, <1>3, LockType, TaskNames DEF LazyOpen, OpenTurn, Enter, ManagerType
    <2> QED
      BY <1>0, <1>1, <1>3, <2>1 DEF LazyOpen, OpenTurn, TypeOK
  <1>4. CASE PlainFrame
    <2>1. verdict' \in {"none", "start", "end"} /\ speaking' \in BOOLEAN
      BY <1>0, <1>4 DEF PlainFrame, ReceiverType
    <2>2. CASE active
      <3>1. lock' \in Seq(Tasks) /\ audio' = "feed" /\ UNCHANGED <<ring, stamp, closed>>
        BY <1>0, <1>4, <2>2, LockType, TaskNames DEF PlainFrame, Feed, Enter, ManagerType
      <3> QED
        BY <1>0, <1>1, <1>4, <2>1, <3>1 DEF PlainFrame, TypeOK
    <2>3. CASE ~active
      <3>1. ring' \in Seq(Frames) /\ EndFrame /\ UNCHANGED lock
        BY <1>0, <1>1, <1>4, <2>3, PushType DEF PlainFrame, Feed, ReceiverType
      <3>2. /\ audio' = "recv" /\ closed' \in BOOLEAN
            /\ endpoint' \in {"none", "vad", "client_eos"} /\ endpointGen' \in 0 .. mgen
            /\ endpoint' = "none" => endpointGen' = 0
        BY <1>0, <3>1, EndFrameType
      <3> QED
        BY <1>0, <1>1, <1>4, <2>1, <3>1, <3>2 DEF PlainFrame, TypeOK
    <2> QED
      BY <2>2, <2>3
  <1> QED
    BY <1>2, <1>3, <1>4, <1>5

\* The calls of the audio task return.
LEMMA AudioReturnsType ==
  ASSUME TypeOK, Counted, AudioInFlight
  PROVE  TypeOK'
  <1> USE DEF manager, turnVars, stamp, eventVars, loopVars, carried
  <1>0. mode \in Modes /\ ManagerType /\ SharedType /\ ReceiverType /\ LoopType
    BY TypeParts
  <1>1. CASE AfterBarge
    <2>1. lock' \in Seq(Tasks)
      BY <1>0, <1>1, LockType, TaskNames DEF AfterBarge, OpenTurn, Enter, ManagerType
    <2> QED
      BY <1>0, <1>1, <2>1 DEF AfterBarge, OpenTurn, TypeOK
  <1>2. CASE OpenReturns
    <2>1. lock' \in Seq(Tasks)
      BY <1>0, <1>2, LockType, TaskNames
         DEF OpenReturns, Opened, NotOpened, Leave, Holds, ManagerType
    <2>2. mgen' \in Turns /\ mgen' = mgen + 1 /\ mgen \in Nat /\ mgen' \in Nat
      BY <1>0, <1>2, BoundsType DEF OpenReturns, Counted, ManagerType, ReceiverType, Turns
    <2>3. activeGen' \in 0 .. mgen'
      BY <1>0, <1>2, <2>2 DEF OpenReturns, Opened, NotOpened, SharedType
    <2>6. active' \in BOOLEAN /\ expired' \in BOOLEAN
      BY <1>0, <1>2 DEF OpenReturns, Opened, NotOpened, SharedType
    <2>4. /\ mstate' \in {"active", "idle"} /\ faults' \in 0 .. MaxFaults
          /\ audio' \in {"feed", "preroll", "recv"}
      BY <1>0, <1>2, BoundsType DEF OpenReturns, Opened, NotOpened, Fault, ManagerType
    <2>5. endpoint' = "none" /\ endpointGen' = 0
      BY <1>2 DEF OpenReturns, ClearEndpoint
    <2> QED
      BY <1>0, <1>2, <2>1, <2>2, <2>3, <2>4, <2>5, <2>6 DEF OpenReturns, TypeOK
  <1>3. CASE Replayed
    <2>1. lock' \in Seq(Tasks)
      BY <1>0, <1>3, LockType, TaskNames DEF Replayed, Leave, Holds, ManagerType
    <2>2. /\ mstate' \in {"idle", "active", "finalizing", "cancelling"}
          /\ faults' \in 0 .. MaxFaults /\ heard' \in Seq(Frames)
      BY <1>0, <1>3, AcceptType DEF Replayed, ReceiverType
    <2>3. CASE active
      BY <1>0, <1>3, <2>1, <2>2, <2>3 DEF Replayed, TypeOK
    <2>4. CASE ~active
      <3>1. <<>> \in Seq(Frames)
        OBVIOUS
      <3>2. frame \in Frames
        BY <1>0, <1>3 DEF Replayed, Counted, InHand, ReceiverType, Frames
      <3>3. Push(<<>>, frame) \in Seq(Frames)
        BY <3>1, <3>2, PushType
      <3> QED
        BY <1>0, <1>3, <2>1, <2>2, <2>4, <3>3 DEF Replayed, TypeOK
    <2> QED
      BY <2>3, <2>4
  <1>4. CASE Fed
    <2>1. lock' \in Seq(Tasks)
      BY <1>0, <1>4, LockType DEF Fed, Leave, Holds, ManagerType
    <2>2. <<frame>> \in Seq(Frames)
      BY <1>0, <1>4 DEF Fed, Counted, InHand, ReceiverType, Frames
    <2>3. /\ mstate' \in {"idle", "active", "finalizing", "cancelling"}
          /\ faults' \in 0 .. MaxFaults /\ heard' \in Seq(Frames)
      BY <1>0, <1>4, <2>2, AcceptType DEF Fed
    <2>4. /\ audio' = "recv" /\ closed' \in BOOLEAN
          /\ endpoint' \in {"none", "vad", "client_eos"} /\ endpointGen' \in 0 .. mgen
          /\ endpoint' = "none" => endpointGen' = 0
      BY <1>0, <1>4, EndFrameType DEF Fed
    <2> QED
      BY <1>0, <1>4, <2>1, <2>3, <2>4 DEF Fed, TypeOK
  <1> QED
    BY <1>1, <1>2, <1>3, <1>4 DEF AudioInFlight

\* The event task, the end of the input and the clock.
LEMMA EventType ==
  ASSUME TypeOK, EventTask \/ InputEnds \/ TurnExpires
  PROVE  TypeOK'
  <1> USE DEF manager, turnVars, stamp, audioVars, eventVars, loopVars, carried
  <1>0. mode \in Modes /\ ManagerType /\ SharedType /\ ReceiverType /\ LoopType
    BY TypeParts
  <1>1. CASE ClientEos
    <2>1. clients' \in 0 .. MaxClient /\ closed' \in BOOLEAN
      BY <1>0, <1>1, ModeType, BoundsType DEF ClientEos, ClientEvent, ReceiverType, SharedType
    <2> QED
      BY <1>0, <1>1, <2>1 DEF ClientEos, StampEndpoint, TypeOK
  <1>2. CASE ClientAbort
    <2>1. clients' \in 0 .. MaxClient
      BY <1>0, <1>2, BoundsType DEF ClientAbort, ClientEvent, ReceiverType
    <2> QED
      BY <1>0, <1>2, <2>1 DEF ClientAbort, TypeOK
  <1>3. CASE AbortBarged
    <2>1. lock' \in Seq(Tasks) /\ preempted' \in BOOLEAN /\ events' \in {"cancel", "recv"}
      BY <1>0, <1>3, LockType, TaskNames DEF AbortBarged, Enter, ManagerType
    <2> QED
      BY <1>0, <1>3, <2>1 DEF AbortBarged, TypeOK
  <1>4. CASE AbortCancelled
    <2>1. lock' \in Seq(Tasks)
      BY <1>0, <1>4, LockType DEF AbortCancelled, Leave, Holds, ManagerType
    <2>2. active' \in BOOLEAN /\ expired' \in BOOLEAN /\ activeGen' = activeGen
      BY <1>4 DEF AbortCancelled, DeactivateAsr
    <2> QED
      BY <1>0, <1>4, <2>1, <2>2 DEF AbortCancelled, TypeOK
  <1>5. CASE InputEnds
    BY <1>0, <1>5 DEF InputEnds, TypeOK
  <1>6. CASE TurnExpires
    BY <1>0, <1>6 DEF TurnExpires, TypeOK
  <1> QED
    BY <1>1, <1>2, <1>3, <1>4, <1>5, <1>6 DEF EventTask, EventsInFlight

\* A final keeps the types of the loop's variables.
LEMMA EmitFinalType ==
  ASSUME mode \in Modes, SharedType, LoopType, NEW g \in Turns, EmitFinal(g)
  PROVE  /\ loop' \in {"reply", "end", "top"} /\ replied' \in Seq(Turns)
         /\ last' \in BOOLEAN /\ streamed' \in Turns
  <1>1. (closed \/ ~mode.multi) \in BOOLEAN
    BY ModeType DEF SharedType
  <1>2. Append(replied, g) \in Seq(Turns)
    BY DEF LoopType
  <1> QED
    BY <1>1, <1>2 DEF EmitFinal, LoopType

\* What comes after an endpoint, too.
LEMMA CommitType ==
  ASSUME mode \in Modes, ManagerType, SharedType, LoopType, NEW r \in Seq(Tasks), Commit(r)
  PROVE  /\ loop' \in {"reply", "end", "top", "slot", "finalize"} /\ replied' \in Seq(Turns)
         /\ last' \in BOOLEAN /\ streamed' \in Turns /\ finalGen' \in Turns
         /\ lock' \in Seq(Tasks)
  <1>1. CASE active
    <2>1. Append(r, "loop") \in Seq(Tasks)
      BY TaskNames
    <2>2. activeGen \in Turns
      BY BoundsType DEF ManagerType, SharedType, Turns
    <2> QED
      BY <1>1, <2>1, <2>2 DEF Commit, LoopType
  <1>2. CASE ~active
    <2>1. 0 \in Turns
      BY BoundsType DEF Turns
    <2> QED
      BY <1>2, <2>1, EmitFinalType DEF Commit, LoopType
  <1> QED
    BY <1>1, <1>2

\* And the resolution of an endpoint.
LEMMA ResolveType ==
  ASSUME mode \in Modes, ManagerType, SharedType, LoopType,
         NEW p \in Turns, NEW r \in Seq(Tasks), Resolve(p, r)
  PROVE  /\ loop' \in {"reply", "end", "top", "slot", "finalize", "sending"}
         /\ replied' \in Seq(Turns) /\ last' \in BOOLEAN /\ streamed' \in Turns
         /\ finalGen' \in Turns /\ lock' \in Seq(Tasks)
         /\ polled' \in Turns /\ decided' \in Turns
         /\ endpoint' \in {"none", "vad", "client_eos"} /\ endpointGen' \in 0 .. mgen
         /\ endpoint' = "none" => endpointGen' = 0
  <1>1. 0 \in Turns /\ activeGen \in Turns
    BY BoundsType DEF ManagerType, SharedType, Turns
  <1>2. polled' \in Turns /\ decided' \in Turns
    BY <1>1 DEF Resolve, LoopType
  <1>3. /\ endpoint' \in {"none", "vad", "client_eos"} /\ endpointGen' \in 0 .. mgen
        /\ endpoint' = "none" => endpointGen' = 0
    BY DEF Resolve, ClearEndpoint, stamp, ManagerType, SharedType, Turns
  <1>4. \/ Commit(r)
        \/ /\ loop' \in {"sending", "end", "top"} /\ lock' = r
           /\ UNCHANGED <<finalGen, last, streamed, replied>>
    BY DEF Resolve, NoEndpoint
  <1> QED
    BY <1>2, <1>3, <1>4, CommitType DEF LoopType

\* The ASR loop keeps the types.
LEMMA LoopStepType ==
  ASSUME TypeOK, LoopHolds, AsrLoop PROVE TypeOK'
  <1> USE DEF manager, turnVars, stamp, audioVars, eventVars, loopVars, carried
  <1>0. mode \in Modes /\ ManagerType /\ SharedType /\ ReceiverType /\ LoopType
    BY TypeParts
  <1>a. 0 \in Turns /\ mgen \in Turns /\ 0 \in 0 .. mgen
    BY <1>0, BoundsType DEF ManagerType, Turns
  <1>1. CASE Deadline \/ Poll \/ SlotAcquired
    <2>1. lock' \in Seq(Tasks)
      BY <1>0, <1>1, LockType, TaskNames DEF Deadline, Poll, SlotAcquired, Enter, ManagerType
    <2>2. loop' \in {"timeout", "partial", "finalize"} /\ preempted' \in {preempted, TRUE}
      BY <1>1 DEF Deadline, Poll, SlotAcquired
    <2>3. preempted' \in BOOLEAN
      BY <1>0, <2>2 DEF ManagerType
    <2>4. UNCHANGED <<mode, mstate, mgen, faults, turnVars, stamp, closed, audioVars,
                      eventVars, carried, heard, replied>>
      BY <1>1 DEF Deadline, Poll, SlotAcquired
    <2> QED
      BY <1>0, <2>1, <2>2, <2>3, <2>4 DEF TypeOK
  <1>2. CASE DeadlineReturns
    <2>1. lock' \in Seq(Tasks)
      <3>1. CASE Holds("loop") /\ Leave
        BY <1>0, <3>1, LockType DEF Holds, Leave, ManagerType
      <3>2. CASE \E i \in 2 .. Len(lock) :
                    lock' = SubSeq(lock, 1, i - 1) \o SubSeq(lock, i + 1, Len(lock))
        <4>1. PICK i \in 2 .. Len(lock) :
                 lock' = SubSeq(lock, 1, i - 1) \o SubSeq(lock, i + 1, Len(lock))
          BY <3>2
        <4>2. SubSeq(lock, 1, i - 1) \in Seq(Tasks) /\ SubSeq(lock, i + 1, Len(lock)) \in Seq(Tasks)
          BY <1>0 DEF ManagerType
        <4> QED
          BY <4>1, <4>2
      <3> QED
        BY <1>2, <3>1, <3>2 DEF DeadlineReturns, DeadlineCancel
    <2>2. mstate' \in {"idle", "cancelling", mstate}
      BY <1>2 DEF DeadlineReturns, DeadlineCancel
    <2>3. active' \in BOOLEAN /\ expired' \in BOOLEAN /\ activeGen' = activeGen
      BY <1>2 DEF DeadlineReturns, DeadlineOver, DeactivateAsr
    <2>4. endpoint' = "none" /\ endpointGen' = 0
      BY <1>2 DEF DeadlineReturns, DeadlineOver, ClearEndpoint
    <2> QED
      BY <1>0, <1>a, <1>2, <2>1, <2>2, <2>3, <2>4 DEF DeadlineReturns, TypeOK
  <1>3. CASE ErrorSent \/ ReplyReturns
    BY <1>0, <1>3 DEF ErrorSent, ReplyReturns, TypeOK
  <1>4. CASE LoopIdle \/ Polled \/ PartialSent
    <2>1. PICK p \in Turns, r \in Seq(Tasks) : Resolve(p, r)
      <3>1. CASE LoopIdle
        BY <1>0, <1>a, <3>1 DEF LoopIdle, ManagerType
      <3>2. CASE Polled
        <4>1. Tail(lock) \in Seq(Tasks)
          BY <1>0, <3>2, LockType DEF Polled, Holds, ManagerType
        <4> QED
          BY <1>a, <3>2, <4>1 DEF Polled, Reported
      <3>3. CASE PartialSent
        BY <1>0, <3>3 DEF PartialSent, ManagerType, LoopType
      <3> QED
        BY <1>4, <3>1, <3>2, <3>3
    <2>2. /\ loop' \in {"reply", "end", "top", "slot", "finalize", "sending"}
          /\ replied' \in Seq(Turns) /\ last' \in BOOLEAN /\ streamed' \in Turns
          /\ finalGen' \in Turns /\ lock' \in Seq(Tasks)
          /\ polled' \in Turns /\ decided' \in Turns
          /\ endpoint' \in {"none", "vad", "client_eos"} /\ endpointGen' \in 0 .. mgen
          /\ endpoint' = "none" => endpointGen' = 0
      BY <1>0, <2>1, ResolveType
    <2>3. UNCHANGED <<mode, mstate, mgen, preempted, faults, turnVars, closed, audioVars,
                      eventVars, heard>>
      BY <1>4 DEF LoopIdle, Polled, PartialSent
    <2> QED
      BY <1>0, <2>2, <2>3 DEF TypeOK
  <1>5. CASE PolledText
    <2>1. lock' \in Seq(Tasks) /\ polled' \in Turns
      BY <1>0, <1>a, <1>5, LockType DEF PolledText, Leave, Holds, Reported, ManagerType
    <2> QED
      BY <1>0, <1>5, <2>1 DEF PolledText, TypeOK
  <1>6. CASE EndpointSent
    <2>1. /\ loop' \in {"reply", "end", "top", "slot", "finalize"} /\ replied' \in Seq(Turns)
          /\ last' \in BOOLEAN /\ streamed' \in Turns /\ finalGen' \in Turns
          /\ lock' \in Seq(Tasks)
      BY <1>0, <1>6, CommitType DEF EndpointSent, ManagerType
    <2> QED
      BY <1>0, <1>6, <2>1 DEF EndpointSent, TypeOK
  <1>7. CASE Finalize
    <2>1. preempted' \in BOOLEAN
      BY <1>7 DEF Finalize
    <2> QED
      BY <1>0, <1>7, <2>1 DEF Finalize, TypeOK
  <1>8. CASE NothingToFinalize \/ FinalAccepted \/ FinalDiscarded \/ FinalFails
    <2>1. PICK g \in Turns : FinalizeReturns(g)
      BY <1>8, <1>a DEF NothingToFinalize, FinalAccepted, FinalDiscarded, FinalFails
    <2>2. /\ loop' \in {"reply", "end", "top"} /\ replied' \in Seq(Turns)
          /\ last' \in BOOLEAN /\ streamed' \in Turns
      BY <1>0, <2>1, EmitFinalType DEF FinalizeReturns
    <2>3. active' \in BOOLEAN /\ expired' \in BOOLEAN /\ activeGen' = activeGen
      <3>1. CASE activeGen = finalGen
        BY <2>1, <3>1 DEF FinalizeReturns, DeactivateAsr
      <3>2. CASE activeGen # finalGen
        BY <1>0, <2>1, <3>2 DEF FinalizeReturns, SharedType
      <3> QED
        BY <3>1, <3>2
    <2>4. mstate' \in {"idle", "active", "finalizing", "cancelling"} /\ faults' \in 0 .. MaxFaults
      BY <1>0, <1>8, BoundsType
         DEF NothingToFinalize, FinalAccepted, FinalDiscarded, FinalFails, Fault, ManagerType
    <2>5. lock' \in Seq(Tasks)
      <3>1. Holds("loop")
        BY <1>8 DEF NothingToFinalize, FinalAccepted, FinalDiscarded, FinalFails, LoopHolds
      <3> QED
        BY <1>0, <2>1, <3>1, LockType DEF Holds, FinalizeReturns, Leave, ManagerType
    <2> QED
      BY <1>0, <2>1, <2>2, <2>3, <2>4, <2>5 DEF FinalizeReturns, TypeOK
  <1> QED
    BY <1>1, <1>2, <1>3, <1>4, <1>5, <1>6, <1>7, <1>8 DEF AsrLoop

-----------------------------------------------------------------------------
(***************************************************************************)
(* The steps keep the rest of the invariant.                               *)
(***************************************************************************)

\* The lock of a finalize in progress stays with the loop: the others queue.
LEMMA LoopHoldsStep ==
  ASSUME TypeOK, LoopHolds, Next PROVE LoopHolds'
  <1> USE DEF manager, turnVars, stamp, audioVars, eventVars, loopVars, carried
  <1>0. lock \in Seq(Tasks)
    BY DEF TypeOK
  <1>1. ASSUME loop' = "final", UNCHANGED lock, loop = "final" PROVE Holds("loop")'
    BY <1>1 DEF LoopHolds, Holds
  <1>2. ASSUME NEW t \in Tasks, loop' = "final", Enter(t), loop = "final" PROVE Holds("loop")'
    <2>1. lock # <<>> /\ Head(lock) = "loop" /\ lock' = Append(lock, t)
      BY <1>2 DEF LoopHolds, Holds, Enter
    <2>2. Len(lock) \in Nat /\ Len(lock) # 0 /\ Len(lock') = Len(lock) + 1 /\ lock'[1] = lock[1]
      BY <1>0, <2>1
    <2>3. lock' # <<>> /\ Head(lock') = lock'[1] /\ Head(lock) = lock[1]
      BY <1>0, <2>1, <2>2
    <2> QED
      BY <2>1, <2>2, <2>3 DEF Holds
  <1>3. CASE AudioTask
    <2>1. loop' = loop
      BY <1>3 DEF AudioTask, SkipFrame, SpeechStart, LazyOpen, PlainFrame, AudioInFlight,
                  AfterBarge, OpenReturns, Replayed, Fed
    <2>2. loop = "final" => Enter("audio") \/ UNCHANGED lock
      BY <1>3 DEF AudioTask, SkipFrame, SpeechStart, LazyOpen, PlainFrame, AudioInFlight,
                  AfterBarge, OpenReturns, Replayed, Fed, OpenTurn, Feed, LoopHolds, Holds
    <2> QED
      BY <1>1, <1>2, <2>1, <2>2, TaskNames DEF LoopHolds
  <1>4. CASE EventTask \/ InputEnds \/ TurnExpires
    <2>1. loop' = loop
      BY <1>4 DEF EventTask, EventsInFlight, ClientEos, ClientAbort, AbortBarged, AbortCancelled,
                  InputEnds, TurnExpires
    <2>2. loop = "final" => Enter("events") \/ UNCHANGED lock
      BY <1>4 DEF EventTask, EventsInFlight, ClientEos, ClientAbort, AbortBarged, AbortCancelled,
                  InputEnds, TurnExpires, LoopHolds, Holds
    <2> QED
      BY <1>1, <1>2, <2>1, <2>2, TaskNames DEF LoopHolds
  <1>5. CASE Finalize
    BY <1>5 DEF Finalize, LoopHolds, Holds
  <1>6. CASE AsrLoop /\ ~Finalize
    <2>1. loop' # "final"
      <3>1. CASE Deadline \/ DeadlineReturns \/ ErrorSent \/ Poll \/ PolledText \/ SlotAcquired
                   \/ ReplyReturns
        BY <3>1
           DEF Deadline, DeadlineReturns, ErrorSent, Poll, PolledText, SlotAcquired, ReplyReturns
      <3>2. CASE LoopIdle \/ Polled \/ PartialSent \/ EndpointSent
        BY <3>2
           DEF LoopIdle, Polled, PartialSent, EndpointSent, Resolve, Commit, EmitFinal,
               NoEndpoint
      <3>3. CASE NothingToFinalize \/ FinalAccepted \/ FinalDiscarded \/ FinalFails
        BY <3>3 DEF NothingToFinalize, FinalAccepted, FinalDiscarded, FinalFails, FinalizeReturns,
                    EmitFinal
      <3> QED
        BY <1>6, <3>1, <3>2, <3>3 DEF AsrLoop
    <2> QED
      BY <2>1 DEF LoopHolds
  <1> QED
    BY <1>3, <1>4, <1>5, <1>6 DEF Next

\* Nobody but the audio task opens a turn, or touches frames, ring and streams.
LEMMA OthersListen ==
  ASSUME EventTask \/ InputEnds \/ TurnExpires \/ AsrLoop
  PROVE  /\ UNCHANGED <<mgen, frame, ring, heard>>
         /\ audio' = audio \/ (audio = "recv" /\ audio' = "end")
         /\ active' => active
  <1> USE DEF manager, turnVars, stamp, audioVars, eventVars, loopVars, carried
  <1>1. CASE EventTask \/ InputEnds \/ TurnExpires
    BY <1>1 DEF EventTask, EventsInFlight, ClientEos, ClientAbort, AbortBarged, AbortCancelled,
                DeactivateAsr, InputEnds, TurnExpires
  <1>2. CASE AsrLoop
    <2>1. /\ UNCHANGED <<mgen, audioVars, heard>>
          /\ UNCHANGED active \/ DeactivateAsr
      <3>1. CASE Deadline \/ DeadlineReturns \/ ErrorSent \/ Poll \/ PolledText \/ SlotAcquired
                   \/ Finalize \/ ReplyReturns
        BY <3>1
           DEF Deadline, DeadlineReturns, DeadlineOver, ErrorSent, Poll, PolledText,
               SlotAcquired,
                    Finalize, ReplyReturns
      <3>2. CASE LoopIdle \/ Polled \/ PartialSent \/ EndpointSent
        BY <3>2 DEF LoopIdle, Polled, PartialSent, EndpointSent
      <3>3. CASE NothingToFinalize \/ FinalAccepted \/ FinalDiscarded \/ FinalFails
        BY <3>3 DEF NothingToFinalize, FinalAccepted, FinalDiscarded, FinalFails, FinalizeReturns
      <3> QED
        BY <1>2, <3>1, <3>2, <3>3 DEF AsrLoop
    <2> QED
      BY <2>1 DEF DeactivateAsr
  <1> QED
    BY <1>1, <1>2

\* A turn is opened by a frame of its own.
LEMMA CountedStep ==
  ASSUME TypeOK, Counted, Next PROVE Counted'
  <1> USE DEF Counted, InHand
  <1>0. mgen \in Nat /\ frame \in Nat
    BY BoundsType DEF TypeOK, Turns
  <1>1. CASE SkipFrame \/ SpeechStart \/ LazyOpen \/ PlainFrame
    <2>1. frame' = frame + 1 /\ mgen' = mgen
      BY <1>1 DEF SkipFrame, SpeechStart, LazyOpen, PlainFrame, NextFrame, manager
    <2> QED
      BY <1>0, <2>1
  <1>2. CASE AudioInFlight
    <2>1. CASE OpenReturns
      <3>1. frame' = frame /\ mgen' = mgen + 1 /\ audio = "open" /\ audio' \notin {"barge", "open"}
        BY <2>1 DEF OpenReturns, Opened, NotOpened
      <3> QED
        BY <1>0, <3>1
    <2>2. CASE AfterBarge
      BY <1>0, <2>2 DEF AfterBarge, OpenTurn
    <2>3. CASE Replayed \/ Fed
      BY <1>0, <2>3 DEF Replayed, Fed, EndFrame
    <2> QED
      BY <1>2, <2>1, <2>2, <2>3 DEF AudioInFlight
  <1>3. CASE EventTask \/ InputEnds \/ TurnExpires \/ AsrLoop
    BY <1>3, OthersListen
  <1> QED
    BY <1>1, <1>2, <1>3 DEF Next, AudioTask

\* Frames and turns are numbers.
LEMMA Numbers ==
  /\ \A s \in Seq(Frames) : s \in Seq(Nat)
  /\ \A s \in Seq(Turns) : s \in Seq(Nat)
  <1>1. Frames \subseteq Nat /\ Turns \subseteq Nat
    BY BoundsType DEF Frames, Turns
  <1>2. ASSUME NEW S, S \subseteq Nat, NEW s \in Seq(S) PROVE s \in Seq(Nat)
    <2>1. Len(s) \in Nat /\ s \in [1 .. Len(s) -> S]
      BY <1>2
    <2>2. s \in [1 .. Len(s) -> Nat]
      BY <1>2, <2>1
    <2> QED
      BY <2>1, <2>2
  <1> QED
    BY <1>1, <1>2

\* A newest frame behind the ring.
LEMMA PushBehind ==
  ASSUME NEW h \in Seq(Nat), NEW r \in Seq(Nat), NEW f \in Nat, Sorted(r), Below(r, f), Below(h, f),
         \A i \in DOMAIN r : Below(h, r[i])
  PROVE  /\ Sorted(Push(r, f)) /\ UpTo(Push(r, f), f)
         /\ \A i \in DOMAIN Push(r, f) : Below(h, Push(r, f)[i])
  <1> DEFINE all == Append(r, f)
  <1>1. /\ all \in Seq(Nat) /\ Sorted(all) /\ UpTo(all, f)
        /\ \A i \in DOMAIN all : Below(h, all[i])
    <2>1. \A i \in DOMAIN all : all[i] = f \/ (i \in DOMAIN r /\ all[i] = r[i])
      BY AppendSorted
    <2>2. \A i \in DOMAIN all : Below(h, all[i])
      BY <2>1
    <2> QED
      BY <2>2, AppendSorted
  <1>2. all # <<>>
    <2>1. Len(all) = Len(r) + 1 /\ Len(r) \in Nat
      OBVIOUS
    <2> QED
      BY <2>1
  <1> HIDE DEF all
  <1>3. /\ Sorted(Tail(all)) /\ UpTo(Tail(all), f)
        /\ \A i \in DOMAIN Tail(all) : Below(h, Tail(all)[i])
    <2>1. \A i \in DOMAIN Tail(all) : i + 1 \in DOMAIN all /\ Tail(all)[i] = all[i + 1]
      BY <1>1, <1>2, TailSorted
    <2> QED
      BY <1>1, <1>2, <2>1, TailSorted DEF UpTo
  <1>4. UpTo(r, f)
    BY DEF UpTo, Below
  <1>5. Push(r, f) \in {r, all, Tail(all)}
    BY DEF Push, all
  <1> QED
    BY <1>1, <1>3, <1>4, <1>5

\* The frames keep their order.
LEMMA RingBehindStep ==
  ASSUME TypeOK, Counted, RingBehind, Next PROVE RingBehind'
  <1> USE DEF InHand
  <1>0. /\ frame \in Nat /\ heard \in Seq(Nat) /\ ring \in Seq(Nat)
        /\ \A i \in DOMAIN heard : heard[i] \in Nat
        /\ \A i \in DOMAIN ring : ring[i] \in Nat
    <2>1. frame \in Nat /\ heard \in Seq(Nat) /\ ring \in Seq(Nat)
      BY Numbers, BoundsType DEF TypeOK
    <2> QED
      BY <2>1
  <1>1. CASE EventTask \/ InputEnds \/ TurnExpires \/ AsrLoop
    <2>1. /\ UNCHANGED <<frame, ring, heard>>
          /\ audio' = audio \/ (audio = "recv" /\ audio' = "end")
          /\ active' => active
      BY <1>1, OthersListen
    <2>2. /\ Sorted(heard') /\ Sorted(ring') /\ UpTo(heard', frame') /\ UpTo(ring', frame')
          /\ \A i \in DOMAIN ring' : Below(heard', ring'[i])
      BY <2>1 DEF RingBehind
    <2>3. InHand' => Below(heard', frame') /\ Below(ring', frame')
      BY <2>1 DEF RingBehind
    <2>4. audio' = "feed" \/ (active' /\ audio' # "preroll") => ring' = <<>>
      BY <2>1 DEF RingBehind
    <2> QED
      BY <2>2, <2>3, <2>4 DEF RingBehind
  <1>2. ASSUME frame' = frame + 1
        PROVE  /\ Below(heard, frame') /\ Below(ring, frame') /\ UpTo(heard, frame') /\ UpTo(ring, frame')
    BY <1>0, <1>2 DEF RingBehind, UpTo, Below
  <1>3. CASE SkipFrame \/ SpeechStart \/ LazyOpen
    <2>1. /\ frame' = frame + 1 /\ UNCHANGED <<heard, ring, active>>
          /\ audio = "recv" /\ audio' \in {"recv", "barge", "open"}
      BY <1>3 DEF SkipFrame, SpeechStart, LazyOpen, NextFrame, OpenTurn, turnVars
    <2> QED
      BY <1>2, <2>1 DEF RingBehind
  <1>4. CASE PlainFrame
    <2>1. /\ frame' = frame + 1 /\ UNCHANGED <<heard, active>> /\ audio = "recv"
      BY <1>4 DEF PlainFrame, NextFrame, turnVars
    <2>2. CASE active
      <3>1. audio' = "feed" /\ UNCHANGED ring
        BY <1>4, <2>2 DEF PlainFrame, Feed
      <3> QED
        BY <1>2, <2>1, <2>2, <3>1 DEF RingBehind
    <2>3. CASE ~active
      <3>1. audio' = "recv" /\ ring' = Push(ring, frame')
        BY <1>4, <2>3 DEF PlainFrame, Feed, EndFrame
      <3>2. frame' \in Nat
        BY <1>0, <2>1
      <3>3. /\ Sorted(ring') /\ UpTo(ring', frame')
            /\ \A i \in DOMAIN ring' : Below(heard, ring'[i])
        BY <1>0, <1>2, <2>1, <3>1, <3>2, PushBehind DEF RingBehind
      <3> QED
        BY <1>2, <2>1, <2>3, <3>1, <3>3 DEF RingBehind
    <2> QED
      BY <2>2, <2>3
  <1>5. CASE AfterBarge
    BY <1>5 DEF AfterBarge, OpenTurn, turnVars, RingBehind
  <1>6. CASE OpenReturns
    <2>1. /\ UNCHANGED <<frame, ring, heard>> /\ audio = "open"
          /\ audio' \in {"preroll", "feed", "recv"} /\ (audio' = "feed" => ring = <<>>)
          /\ audio' = "recv" => ~active'
      BY <1>6 DEF OpenReturns, Opened, NotOpened
    <2> QED
      BY <2>1 DEF RingBehind
  <1>7. CASE Replayed
    <2>1. /\ audio = "preroll" /\ UNCHANGED <<frame, active>>
          /\ heard' \in {heard, heard \o ring}
      BY <1>7 DEF Replayed, Accept, turnVars
    <2>2. /\ Sorted(heard') /\ Below(heard', frame)
      BY <1>0, <2>1, ConcatSorted DEF RingBehind
    <2>3. heard' \in Seq(Nat)
      BY <1>0, <2>1, ConcatSorted DEF RingBehind
    <2>4. UpTo(heard', frame)
      BY <1>0, <2>2, <2>3 DEF Below, UpTo
    <2>5. Sorted(<<>>) /\ Below(<<>>, frame) /\ UpTo(<<>>, frame) /\ <<>> \in Seq(Nat)
          /\ DOMAIN <<>> = {}
      BY DEF Sorted, Below, UpTo
    <2>6. CASE active
      <3>1. audio' = "feed" /\ ring' = <<>>
        BY <1>7, <2>6 DEF Replayed
      <3> QED
        BY <2>1, <2>2, <2>4, <2>5, <3>1 DEF RingBehind
    <2>7. CASE ~active
      <3>1. audio' = "recv" /\ ring' = Push(<<>>, frame)
        BY <1>7, <2>7 DEF Replayed
      <3>2. /\ Sorted(ring') /\ UpTo(ring', frame)
            /\ \A i \in DOMAIN ring' : Below(heard', ring'[i])
        BY <1>0, <2>2, <2>3, <2>5, <3>1, PushBehind
      <3> QED
        BY <2>1, <2>2, <2>4, <2>7, <3>1, <3>2 DEF RingBehind
    <2> QED
      BY <2>6, <2>7
  <1>8. CASE Fed
    <2>1. /\ audio = "feed" /\ audio' = "recv" /\ UNCHANGED <<frame, active, ring>>
          /\ heard' \in {heard, heard \o <<frame>>}
      BY <1>8 DEF Fed, Accept, EndFrame, turnVars
    <2>2. ring = <<>>
      BY <2>1 DEF RingBehind
    <2>3. heard \o <<frame>> = Append(heard, frame)
      BY <1>0
    <2>4. Sorted(heard') /\ UpTo(heard', frame)
      BY <1>0, <2>1, <2>3, AppendSorted DEF RingBehind
    <2>5. Sorted(<<>>) /\ UpTo(<<>>, frame) /\ DOMAIN <<>> = {}
      BY DEF Sorted, UpTo
    <2> QED
      BY <2>1, <2>2, <2>4, <2>5 DEF RingBehind
  <1> QED
    BY <1>1, <1>3, <1>4, <1>5, <1>6, <1>7, <1>8 DEF Next, AudioTask, AudioInFlight

\* The turns keep theirs.
LEMMA RepliesBehindStep ==
  ASSUME TypeOK, RepliesBehind, Next PROVE RepliesBehind'
  <1> USE DEF manager, turnVars, stamp, audioVars, eventVars, loopVars, carried
  <1>0. /\ mgen \in Nat /\ replied \in Seq(Nat) /\ \A i \in DOMAIN replied : replied[i] \in Nat
    <2>1. mgen \in Nat /\ replied \in Seq(Nat)
      BY Numbers, BoundsType DEF TypeOK, Turns
    <2> QED
      BY <2>1
  <1>1. CASE OpenReturns
    <2>1. UNCHANGED replied /\ mgen' = mgen + 1
      BY <1>1 DEF OpenReturns
    <2>2. UpTo(replied, mgen') /\ mgen' # 0 /\ Below(replied, mgen')
      BY <1>0, <2>1 DEF RepliesBehind, UpTo, Below
    <2> QED
      BY <2>1, <2>2 DEF RepliesBehind
  <1>2. ASSUME UNCHANGED <<replied, mgen>>,
               mstate' = "active" => mstate = "active" \/ loop = "final",
               loop' = "final" => loop = "final" \/ mstate = "active"
        PROVE  RepliesBehind'
    BY <1>2 DEF RepliesBehind
  <1>3. CASE AudioTask /\ ~OpenReturns
    <2>1. /\ UNCHANGED <<replied, mgen, loop>>
          /\ mstate' = "active" => mstate = "active"
      BY <1>3 DEF AudioTask, SkipFrame, SpeechStart, LazyOpen, PlainFrame, AudioInFlight,
                  AfterBarge, Replayed, Fed, OpenTurn, Accept
    <2> QED
      BY <1>2, <2>1
  <1>4. CASE EventTask \/ InputEnds \/ TurnExpires
    <2>1. /\ UNCHANGED <<replied, mgen, loop>>
          /\ mstate' = "active" => mstate = "active"
      BY <1>4 DEF EventTask, EventsInFlight, ClientEos, ClientAbort, AbortBarged, AbortCancelled,
                  InputEnds, TurnExpires
    <2> QED
      BY <1>2, <2>1
  <1>5. CASE Deadline \/ DeadlineReturns \/ ErrorSent \/ Poll \/ PolledText \/ SlotAcquired
               \/ Finalize \/ ReplyReturns
    <2>1. /\ UNCHANGED <<replied, mgen>>
          /\ mstate' = "active" => mstate = "active"
          /\ loop' = "final" => mstate = "active"
      BY <1>5 DEF Deadline, DeadlineReturns, DeadlineCancel, ErrorSent, Poll, PolledText,
                  SlotAcquired, Finalize, ReplyReturns
    <2> QED
      BY <1>2, <2>1
  <1>6. CASE LoopIdle \/ Polled \/ PartialSent \/ EndpointSent
    <2>1. UNCHANGED <<replied, mgen, mstate>> /\ loop' # "final"
      BY <1>6
         DEF LoopIdle, Polled, PartialSent, EndpointSent, Resolve, Commit, EmitFinal, NoEndpoint
    <2> QED
      BY <1>2, <2>1
  <1>7. CASE NothingToFinalize \/ FinalDiscarded \/ FinalFails
    <2>1. /\ UNCHANGED <<replied, mgen>> /\ loop' # "final"
          /\ mstate' = "active" => mstate = "active" \/ loop = "final"
      BY <1>7 DEF NothingToFinalize, FinalDiscarded, FinalFails, FinalizeReturns, EmitFinal
    <2> QED
      BY <1>2, <2>1
  <1>8. CASE FinalAccepted
    <2>1. /\ replied' \in {replied, Append(replied, mgen)} /\ mgen' = mgen
          /\ loop = "final" /\ loop' # "final" /\ mstate' = "idle"
      BY <1>8 DEF FinalAccepted, FinalizeReturns, EmitFinal
    <2>2. Below(replied, mgen)
      BY <2>1 DEF RepliesBehind
    <2>3. Sorted(replied') /\ UpTo(replied', mgen)
      BY <1>0, <2>1, <2>2, AppendSorted DEF RepliesBehind
    <2> QED
      BY <2>1, <2>3 DEF RepliesBehind
  <1> QED
    BY <1>1, <1>3, <1>4, <1>5, <1>6, <1>7, <1>8 DEF Next, AsrLoop

-----------------------------------------------------------------------------
\* The inductive invariant.
IInv == TypeOK /\ Counted /\ LoopHolds /\ RingBehind /\ RepliesBehind

\* It holds at the start.
LEMMA InitIInv == ASSUME Init PROVE IInv
  <1> USE DEF Init
  <1>1. /\ <<>> \in Seq(Tasks) /\ <<>> \in Seq(Frames) /\ <<>> \in Seq(Turns) /\ DOMAIN <<>> = {}
    OBVIOUS
  <1>2. 0 \in Turns /\ 0 \in 0 .. MaxFaults /\ 0 \in 0 .. MaxFrames /\ 0 \in 0 .. MaxClient
    BY BoundsType DEF Turns
  <1>3. TypeOK
    <2>1. ManagerType
      BY <1>1, <1>2 DEF ManagerType
    <2>2. SharedType
      <3>1. active \in BOOLEAN /\ expired \in BOOLEAN /\ closed \in BOOLEAN
        BY Zenon
      <3>2. activeGen \in 0 .. mgen /\ endpointGen \in 0 .. mgen /\ endpointGen = 0
        OBVIOUS
      <3>3. endpoint \in {"none", "vad", "client_eos"}
        OBVIOUS
      <3> QED
        BY <3>1, <3>2, <3>3 DEF SharedType
    <2>3. ReceiverType
      BY <1>1, <1>2 DEF ReceiverType
    <2>4. LoopType
      BY <1>1, <1>2 DEF LoopType
    <2> QED
      BY <2>1, <2>2, <2>3, <2>4, TypeParts
  <1>4. Counted /\ LoopHolds
    BY DEF Counted, LoopHolds, InHand
  <1>5. RingBehind /\ RepliesBehind
    BY <1>1 DEF RingBehind, RepliesBehind, Sorted, UpTo, Below, InHand
  <1> QED
    BY <1>3, <1>4, <1>5 DEF IInv

\* Every step keeps it.
LEMMA NextIInv == ASSUME IInv, [Next]_vars PROVE IInv'
  <1>1. CASE Next
    <2>1. TypeOK'
      BY <1>1, FrameType, AudioReturnsType, EventType, LoopStepType DEF IInv, Next, AudioTask
    <2> QED
      BY <1>1, <2>1, CountedStep, LoopHoldsStep, RingBehindStep, RepliesBehindStep DEF IInv
  <1>2. CASE UNCHANGED vars
    BY <1>2
       DEF vars, manager, turnVars, stamp, audioVars, eventVars, loopVars, carried, IInv, TypeOK,
                Turns, Frames, Tasks, Counted, InHand, LoopHolds, Holds, RingBehind, RepliesBehind,
                Sorted, UpTo, Below
  <1> QED
    BY <1>1, <1>2

\* The invariant gives the two orders.
LEMMA IInvOrders == ASSUME IInv PROVE HeardInOrder /\ LlmOncePerTurn
  <1>1. heard \in Seq(Nat) /\ replied \in Seq(Nat)
    BY Numbers DEF IInv, TypeOK
  <1> QED
    BY <1>1, SortedIncreasing DEF IInv, RingBehind, RepliesBehind, HeardInOrder, LlmOncePerTurn

\* The invariant holds in every state.
LEMMA Invariant == Spec => []IInv
  <1>1. Init => IInv
    BY InitIInv
  <1>2. IInv /\ [Next]_vars => IInv'
    BY NextIInv
  <1> QED
    BY <1>1, <1>2, PTL DEF Spec

\* Every variable has its type; in particular no task leaves the manager's lock
\* that does not hold it, and no turn is numbered beyond the frames.
THEOREM TurnsTypeCorrect == Spec => []TypeOK
  <1>1. IInv => TypeOK
    BY DEF IInv
  <1> QED
    BY <1>1, Invariant, PTL

\* No frame is recognised twice or out of order, whatever the ring replays, which
\* turns fail to open and when the loop and the events end them.
THEOREM HeardCorrect == Spec => []HeardInOrder
  <1>1. IInv => HeardInOrder
    BY IInvOrders
  <1> QED
    BY <1>1, Invariant, PTL

\* A turn drives the LLM once at most, and never after a later one.
THEOREM RepliesCorrect == Spec => []LlmOncePerTurn
  <1>1. IInv => LlmOncePerTurn
    BY IInvOrders
  <1> QED
    BY <1>1, Invariant, PTL

-----------------------------------------------------------------------------
(***************************************************************************)
(* What the loop does with the manager is what UtteranceFinals allows a    *)
(* caller to see: a finalize is pending from its snapshot until it returns *)
(* or a step of another task moves the abort epoch, and what drives the    *)
(* LLM are the accepted finals.                                            *)
(***************************************************************************)
Pending == IF loop = "final" /\ ~preempted THEN mgen ELSE 0

Finals == INSTANCE UtteranceFinals
            WITH generation <- mgen, pending <- Pending, finals <- replied

\* A step that opens no turn and replies to none can only drop what is pending.
LEMMA KeptOrDropped ==
  ASSUME UNCHANGED <<mgen, replied>>, Pending' \in {Pending, 0}
  PROVE  [Finals!Next]_(Finals!vars)
  <1>1. CASE Pending' = Pending
    BY <1>1 DEF Finals!vars
  <1>2. CASE Pending # 0 /\ Pending' = 0
    BY <1>2 DEF Finals!Next, Finals!Drop
  <1> QED
    BY <1>1, <1>2

\* The steps of the other tasks: they open a turn when no final is on its way,
\* or preempt the one that is.
LEMMA OthersRefine ==
  ASSUME TypeOK, LoopHolds, AudioTask \/ EventTask \/ InputEnds \/ TurnExpires
  PROVE  [Finals!Next]_(Finals!vars)
  <1> USE DEF manager, turnVars, stamp, audioVars, eventVars, loopVars, carried
  <1>1. CASE OpenReturns
    <2>1. UNCHANGED <<replied, loop>> /\ mgen' = mgen + 1 /\ Holds("audio")
      BY <1>1 DEF OpenReturns
    <2>2. loop # "final"
      BY <2>1 DEF LoopHolds, Holds
    <2>3. Pending = 0 /\ Pending' = 0
      BY <2>1, <2>2 DEF Pending
    <2> QED
      BY <2>1, <2>3 DEF Finals!Next, Finals!Open
  <1>2. CASE AudioTask /\ ~OpenReturns
    <2>1. UNCHANGED <<replied, mgen, loop>> /\ (preempted => preempted')
      BY <1>2 DEF AudioTask, SkipFrame, SpeechStart, LazyOpen, PlainFrame, AudioInFlight,
                  AfterBarge, Replayed, Fed, OpenTurn
    <2>2. Pending' \in {Pending, 0}
      BY <2>1 DEF Pending
    <2> QED
      BY <2>1, <2>2, KeptOrDropped
  <1>3. CASE EventTask \/ InputEnds \/ TurnExpires
    <2>1. UNCHANGED <<replied, mgen, loop>> /\ (preempted => preempted')
      BY <1>3 DEF EventTask, EventsInFlight, ClientEos, ClientAbort, AbortBarged, AbortCancelled,
                  InputEnds, TurnExpires
    <2>2. Pending' \in {Pending, 0}
      BY <2>1 DEF Pending
    <2> QED
      BY <2>1, <2>2, KeptOrDropped
  <1> QED
    BY <1>1, <1>2, <1>3

\* The steps of the loop: a finalize becomes pending for a turn without a final,
\* and what it yields is that turn's.
LEMMA LoopRefines ==
  ASSUME TypeOK, RepliesBehind, AsrLoop
  PROVE  [Finals!Next]_(Finals!vars)
  <1> USE DEF manager, turnVars, stamp, audioVars, eventVars, loopVars, carried
  <1>1. CASE Finalize
    <2>1. /\ UNCHANGED <<replied, mgen>> /\ mstate = "active"
          /\ loop = "finalize" /\ loop' = "final" /\ ~preempted'
      BY <1>1 DEF Finalize
    <2>2. Pending = 0 /\ Pending' = mgen
      BY <2>1 DEF Pending
    <2>3. mgen \in Nat /\ mgen # 0
      BY <2>1, BoundsType DEF RepliesBehind, TypeOK, Turns
    <2>4. ~Finals!Final(mgen)
      <3>1. \A i \in 1 .. Len(replied) : replied[i] \in Nat /\ replied[i] < mgen
        BY <2>1, BoundsType DEF RepliesBehind, Below, TypeOK, Turns
      <3> QED
        BY <2>3, <3>1 DEF Finals!Final
    <2> QED
      BY <2>1, <2>2, <2>3, <2>4 DEF Finals!Next, Finals!Finalize
  <1>2. CASE FinalAccepted
    <2>1. /\ mgen' = mgen /\ loop = "final" /\ ~preempted /\ loop' # "final"
          /\ replied' = replied \/ replied' = Append(replied, mgen)
      BY <1>2 DEF FinalAccepted, FinalizeReturns, EmitFinal
    <2>2. Pending = mgen /\ Pending # 0 /\ Pending' = 0
      BY <2>1 DEF Pending, RepliesBehind
    <2>3. CASE replied' = replied
      BY <2>1, <2>2, <2>3, KeptOrDropped
    <2>4. CASE replied' = Append(replied, mgen)
      BY <2>1, <2>2, <2>4 DEF Finals!Next, Finals!Accept
    <2> QED
      BY <2>1, <2>3, <2>4
  <1>3. CASE NothingToFinalize \/ FinalDiscarded \/ FinalFails
    <2>1. UNCHANGED <<replied, mgen>> /\ loop' # "final"
      BY <1>3 DEF NothingToFinalize, FinalDiscarded, FinalFails, FinalizeReturns, EmitFinal
    <2>2. Pending' = 0
      BY <2>1 DEF Pending
    <2> QED
      BY <2>1, <2>2, KeptOrDropped
  <1>4. CASE Deadline \/ DeadlineReturns \/ ErrorSent \/ Poll \/ PolledText \/ SlotAcquired
               \/ ReplyReturns
    <2>1. UNCHANGED <<replied, mgen>> /\ loop' # "final"
      BY <1>4 DEF Deadline, DeadlineReturns, ErrorSent, Poll, PolledText, SlotAcquired,
                  ReplyReturns
    <2>2. Pending' = 0
      BY <2>1 DEF Pending
    <2> QED
      BY <2>1, <2>2, KeptOrDropped
  <1>5. CASE LoopIdle \/ Polled \/ PartialSent \/ EndpointSent
    <2>1. UNCHANGED <<replied, mgen>> /\ loop' # "final"
      BY <1>5
         DEF LoopIdle, Polled, PartialSent, EndpointSent, Resolve, Commit, EmitFinal, NoEndpoint
    <2>2. Pending' = 0
      BY <2>1 DEF Pending
    <2> QED
      BY <2>1, <2>2, KeptOrDropped
  <1> QED
    BY <1>1, <1>2, <1>3, <1>4, <1>5 DEF AsrLoop

\* The session implements UtteranceFinals: every text that drives the LLM belongs
\* to the utterance that is current when it is accepted, no utterance has two, and
\* one that a later turn, an abort or a deadline has preempted drives nothing.
THEOREM RepliesRefinement == Spec => Finals!Spec
  <1>1. Init => Finals!Init
    BY DEF Init, Finals!Init, Pending
  <1>2. IInv /\ [Next]_vars => [Finals!Next]_(Finals!vars)
    <2> SUFFICES ASSUME IInv, [Next]_vars PROVE [Finals!Next]_(Finals!vars)
      OBVIOUS
    <2>1. CASE Next
      BY <2>1, OthersRefine, LoopRefines DEF Next, IInv
    <2>2. CASE UNCHANGED vars
      <3>1. UNCHANGED <<mgen, replied, loop, preempted>>
        BY <2>2 DEF vars, manager, loopVars
      <3> QED
        BY <3>1 DEF Finals!vars, Pending
    <2> QED
      BY <2>1, <2>2
  <1> QED
    BY <1>1, <1>2, Invariant, PTL DEF Spec, Finals!Spec

=============================================================================
