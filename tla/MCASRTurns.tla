----------------------------- MODULE MCASRTurns -----------------------------
(* The engine configurations of the runs of ASRTurns. *)
EXTENDS ASRTurns

MCModes ==
  {[vad |-> TRUE,  multi |-> TRUE,  serialized |-> TRUE],
   [vad |-> TRUE,  multi |-> FALSE, serialized |-> FALSE],
   [vad |-> FALSE, multi |-> TRUE,  serialized |-> FALSE]}

\* The configuration in which a finalize waits for a synth.
MCSerialized == {m \in MCModes : m.serialized}
=============================================================================
