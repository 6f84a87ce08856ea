\* Every setting of a radio, and files with seeks and throttles; the bounds on
\* requests, reads and ticks are in the setups.
CONSTANTS
  BufferSize = 3
  CountModulus = 1000
  Microseconds = 3
  Second = 2
  CheckpointDuration = 2
  LateDelay = 5
  Setups <- MCSetups
SPECIFICATION HotSpec
INVARIANTS LastRequestApplied InfoIsCurrent EndsOnlyAtEnd
\* Nobody requests for ever.
CHECK_DEADLOCK FALSE
