SPECIFICATION FairSpec
CONSTANTS
  Modes <- MCModes
  Ring = 2
  MaxFrames = 4
  MaxClient = 1
  MaxFaults = 1
CHECK_DEADLOCK FALSE
INVARIANTS
  HeardInOrder
  LlmOncePerTurn
PROPERTIES
  TurnEnds
  AsrLoopEnds
