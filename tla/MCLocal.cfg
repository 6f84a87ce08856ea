SPECIFICATION LocalSpec
CONSTANTS
  Classes <- MCClasses
  Handles = {1, 2, 3}
  have_qth = FALSE
  SAMPLER_BUF_SIZE = 2
  samp_rate = 4
  Setups <- MCSetups
  InitialSweep <- MCInitialSweep
  ThreadFails = TRUE
  MaxHalts = 2
INVARIANTS Answered NoOrphan NoLateRequest SweepApplied
PROPERTY DestroyReturns
CHECK_DEADLOCK FALSE
