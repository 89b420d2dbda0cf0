SPECIFICATION Spec
CONSTANTS
  audio = audio
  asr = asr
  events = events
  Task = {audio, asr, events}
  Calls <- AndPrepare
  Slot = {s1, s2, s3}
  None = None
  Retries = 1
  Abandonable = {"start", "accept", "finalize", "prepare", "partial", "cancel"}
  HasRestart = TRUE
  MaxPreempt = 2
  MaxFaults = 3
  MaxAbandon = 2
  MaxFaultsAbandoned = 1
SYMMETRY SlotSymmetry
INVARIANTS
  WorkerOpsSafe
  StreamsKept
  OneOpPerStream
  CancelStaysInIncarnation
  FinalsIncrease
  HolderInv
PROPERTIES
  FinalsSpec
