SPECIFICATION StoreSpec
CONSTANTS
  Limit = 1
  MaxBatches = 2
  MaxEvents = 1
  MaxVersions = 2
  Depth = 1
INVARIANTS
  PathIsDurable
