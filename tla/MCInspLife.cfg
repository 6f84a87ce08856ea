CONSTANTS
  n1 = n1  n2 = n2
  Inspectors = {n1, n2}
  Failing = {n1}
  None = None
SPECIFICATION FairSpec
INVARIANT NoUseAfterFree
PROPERTY HaltCompletes
CHECK_DEADLOCK FALSE
