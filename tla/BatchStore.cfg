SPECIFICATION StoreSpec
CONSTANTS
  Limit = 3
  MaxBatches = 3
  MaxEvents = 2
  MaxVersions = 3
  Depth = 2
INVARIANTS
  StoreTypeOK
  MemoryMatchesFile
  PutSurvives
  AcknowledgedStaysGone
PROPERTIES
  RefinesDurableLog
