SPECIFICATION Spec
CONSTANTS
  Modes <- MCSerialized
  Ring = 2
  MaxFrames = 4
  MaxClient = 0
  MaxFaults = 0
CHECK_DEADLOCK FALSE
PROPERTIES
  EndpointOwnTurn
