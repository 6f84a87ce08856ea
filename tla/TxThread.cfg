\* One client of the device server: a pusher, the transmission thread, the
\* thread that stops it, the peer.  The watermark is of three messages instead
\* of fifty, so that a few PDUs reach it.
CONSTANTS
  Buffers = {b1, b2, b3}
  Pushers = {p1}
  WATERMARK = 3
  MaxPDUs = 3
  MaxFailures = 1
  CANCEL = CANCEL
  None = None
SPECIFICATION FairSpec
INVARIANTS CriticalInOrder SourceInfoFresh
PROPERTY StopReturns
\* The connection ends, and so does a process whose stack is exhausted.
CHECK_DEADLOCK FALSE
