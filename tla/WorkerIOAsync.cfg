SPECIFICATION PartySpec
CONSTANTS
  r1 = r1
  r2 = r2
  w1 = w1
  w2 = w2
  Sync = {r1}
  Async = {r2}
  Cancellable = {r1}
  Waiter = {}
  Target <- SameTarget
  None = None
  Concurrency = 1
  Leaving = TRUE
  Mortal = TRUE
  Closing = TRUE
  MaxEvents = 1
INVARIANTS
  LateTokenReturned
CHECK_DEADLOCK FALSE
