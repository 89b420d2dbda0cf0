SPECIFICATION Spec
CONSTANTS
    Control = {c1}
    MaxSid = 2
    MaxExits = 1
    MaxWire = 1
INVARIANTS
  ClosedHoldsNoSlot
CHECK_DEADLOCK FALSE
