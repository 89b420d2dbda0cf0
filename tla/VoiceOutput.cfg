\* Five engine configurations, two replies at most, one or two barge-ins.
SPECIFICATION FairSpec
CONSTANTS
  Modes <- MCModes
  Serialized = TRUE
  Wrapped = TRUE
  MaxRounds = 2
  MaxTurns <- MCMaxTurns
  MaxClient <- MCMaxClient
  MaxBarges <- MCMaxBarges
  MaxTexts = 1
  MaxTools = 2
INVARIANTS
  QueueFresh
  SlotsExclude
  EndedIsQuiet
PROPERTIES
  BargedAsksNoMore
  SessionEnds
  FlushAnswered
