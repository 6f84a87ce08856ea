CONSTANTS
  w1 = w1  w2 = w2  c1 = c1  c2 = c2
  AllWorkers = {w1, w2}
  Callbacks = {c1, c2}
  Periodic = {c1}
  Publishing = {w1}
  Aborting = {w2}
  HaltWith <- MCHaltWith
  MaxOut = 1
  HALT = HALT  NULL = NULL
SPECIFICATION FairWorkerSpec
INVARIANT AckMeansHalted
PROPERTY HaltEnds
CHECK_DEADLOCK FALSE
