SPECIFICATION Spec
CONSTANTS
  Calls <- MCCalls
  Usable <- MCUsable
  MaxCalls = 3
  MaxAnnounces = 1
  MaxFailures = 1
  IdModulus = 8
  FirstId = 6
  BlockBits = 4
  MaskBits = 2
  MAX_SUPERFRAME = 4
  Faults = {}
INVARIANTS EncapIntact SameTuning NoOldCalls
CHECK_DEADLOCK FALSE
