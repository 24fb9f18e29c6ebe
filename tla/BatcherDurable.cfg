SPECIFICATION Spec
CONSTANTS
  QueueLimit = 2
  FlushSize = 2
  FlushQueue = 1
  MaxSplitSends = 3
  Durable = TRUE
  Ticker = FALSE
  Recovered = 1
  Flushers = {f1}
  Shutters = {s1, s2}
  Cancellable = {f1}
  MaxCalls = 4
  NoFlusher = NoFlusher
SYMMETRY Symmetry
INVARIANTS
  BatcherInv
  InOrder
  LedgerBalanced
  OvershootBounded
  NothingStranded
PROPERTIES
  RefinesContract
