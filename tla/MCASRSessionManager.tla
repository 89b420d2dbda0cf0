------------------------ MODULE MCASRSessionManager ------------------------
(* Model values and bounds of the runs of ASRSessionManager. *)
EXTENDS ASRSessionManager, TLC

CONSTANTS audio, asr, events   \* the session's tasks that call the manager

(* audio_dispatcher opens utterances and feeds them, asr_loop polls,       *)
(* finalizes and cancels a turn past its deadline, client_events aborts.   *)
SessionCalls ==
  [t \in Task |->
     CASE t = audio  -> {"start", "accept"}
       [] t = asr    -> {"partial", "finalize", "cancel"}
       [] t = events -> {"cancel"}]

(* The library's callers may also prepare a final ...                      *)
AndPrepare ==
  [t \in Task |->
     IF t = asr THEN SessionCalls[t] \cup {"prepare"} ELSE SessionCalls[t]]
(* ... and report an error.                                                *)
AndMarkError ==
  [t \in Task |->
     IF t = audio THEN SessionCalls[t] \cup {"mark_error"}
     ELSE SessionCalls[t]]

SlotSymmetry == Permutations(Slot)
=============================================================================
