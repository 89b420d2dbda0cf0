--------------------------- MODULE UtteranceFinals ---------------------------
(***************************************************************************)
(* What ASRSessionManager promises its caller about finals                 *)
(* (voxedge/engine/asr_session_manager.py): each accepted final belongs to *)
(* the utterance that is current when it is accepted, an utterance has at  *)
(* most one, and a finalize that a later utterance or a cancel preempts    *)
(* yields none.                                                            *)
(***************************************************************************)
EXTENDS Naturals, Sequences

VARIABLES
  generation,  \* number of the current utterance, 0 before the first
  pending,     \* the utterance a finalize may still be accepted for, or 0
  finals       \* the accepted finals, by utterance

vars == <<generation, pending, finals>>

Init == generation = 0 /\ pending = 0 /\ finals = <<>>

Final(g) == \E i \in 1 .. Len(finals) : finals[i] >= g

Open ==
  /\ pending = 0
  /\ generation' = generation + 1
  /\ UNCHANGED <<pending, finals>>

Finalize ==
  /\ pending = 0
  /\ generation > 0 /\ ~Final(generation)
  /\ pending' = generation
  /\ UNCHANGED <<generation, finals>>

(* A preemption, a failure or the end of the calling task. *)
Drop ==
  /\ pending # 0
  /\ pending' = 0
  /\ UNCHANGED <<generation, finals>>

Accept ==
  /\ pending # 0
  /\ finals' = Append(finals, pending)
  /\ pending' = 0
  /\ UNCHANGED generation

Next == Open \/ Finalize \/ Drop \/ Accept

Spec == Init /\ [][Next]_vars
=============================================================================
