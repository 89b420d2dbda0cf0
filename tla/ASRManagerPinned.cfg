SPECIFICATION BudgetSpec
CONSTANTS
  audio = audio
  asr = asr
  events = events
  Task = {audio, asr}
  Calls <- SessionCalls
  Slot = {s1, s2, s3}
  None = None
  Retries = 2
  Abandonable = {"cancel"}
  HasRestart = TRUE
  MaxPreempt = 2
  MaxFaults = 0
  MaxAbandon = 2
  MaxFaultsAbandoned = 0
PROPERTIES
  CancelUnpins
