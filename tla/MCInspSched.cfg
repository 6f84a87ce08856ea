CONSTANTS
  n1 = n1  n2 = n2  n3 = n3  i1 = i1  i2 = i2  i3 = i3
  WorkerCount = 2
  Inspectors = {n1, n2, n3}
  Infos = {i1, i2, i3}
  MaxFailures = 1
  BARRIER = BARRIER  None = None
SPECIFICATION FairSpec
INVARIANT BlockComplete
PROPERTY BlockEnds
CHECK_DEADLOCK FALSE
