SPECIFICATION LoopSpec
CONSTANTS
  audio = audio
  asr = asr
  events = events
  Task = {audio, asr}
  Calls <- AndMarkError
  Slot = {s1, s2, s3}
  None = None
  Retries = 1
  Abandonable = {}
  HasRestart = FALSE
  MaxPreempt = 2
  MaxFaults = 1
  MaxAbandon = 0
  MaxFaultsAbandoned = 1
PROPERTIES
  CallsReturn
  CancelIsBounded
