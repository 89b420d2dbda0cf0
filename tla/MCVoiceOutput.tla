--------------------------- MODULE MCVoiceOutput ---------------------------
(* Bounds and engine configurations for the runs of VoiceOutput. *)
EXTENDS VoiceOutput

AutoTools   == [registry |-> TRUE,  auto |-> TRUE,  multi |-> TRUE]
ManualTools == [registry |-> TRUE,  auto |-> FALSE, multi |-> TRUE]
AutoPlain   == [registry |-> FALSE, auto |-> TRUE,  multi |-> TRUE]
ManualPlain == [registry |-> FALSE, auto |-> FALSE, multi |-> TRUE]
PlainSingle == [registry |-> FALSE, auto |-> TRUE,  multi |-> FALSE]
MCModes     == {AutoTools, ManualTools, AutoPlain, ManualPlain, PlainSingle}
ToolModes   == {AutoTools}

MCMaxTurns(m)  == IF m \in {AutoTools, ManualPlain} THEN 2 ELSE 1
MCMaxClient(m) == IF m \in {AutoPlain, PlainSingle} THEN 1 ELSE 0
MCMaxBarges(m) == IF m = ManualTools THEN 2 ELSE 1
=============================================================================
