\* One reply with tools and one barge-in.
SPECIFICATION Spec
CONSTANTS
  Modes <- ToolModes
  Serialized = FALSE
  Wrapped = FALSE
  MaxRounds = 1
  MaxTurns <- MCMaxTurns
  MaxClient <- MCMaxClient
  MaxBarges <- MCMaxBarges
  MaxTexts = 2
  MaxTools = 1
INVARIANTS
  BargeSilences
