SPECIFICATION Spec
CONSTANTS
    Speaker = {s1, s2}
    NoSpeaker = nobody
    MaxTts = 3
INVARIANTS
  SingleSubprocess
CHECK_DEADLOCK FALSE
