SPECIFICATION MCSpec
CONSTANTS
  Byte = 32
  SHA256_BLOCK_SIZE = 2
  READ_BUFFER = 40
  Thresholds = {0, 30}
  KnownClasses <- MCKnownClasses
  InitialDescs <- MCInitialDescs
  PDUs <- MCPDUs
  Pairs <- MCPairs
  Pieces <- MCPieces
  Offers <- MCOffers
  Files <- MCFiles
  SEC = 12
  Hardware <- MCHardware
  Plugged <- MCPlugged
  OldFiles <- MCOldFiles
  Edits <- MCEdits
  GainEdits <- MCGainEdits
  Announced <- MCAnnounced
  Budgets <- MCBudgets
  EQUIV_FS = 400
  BW = 8
  SAMPLER_BUF_SIZE = 3
  Scenarios <- MCScenarios
INVARIANTS SavedComesBack DiscoveredAsAnnounced InfoOfOneDevice
INVARIANTS DeliveredAsSent FailsOnlyWhenRefused NoPrefixAccepted
INVARIANTS ProcessedAsAsked ConfigComesBack
PROPERTIES PermissionsKept TurnsAdvance
CHECK_DEADLOCK FALSE
