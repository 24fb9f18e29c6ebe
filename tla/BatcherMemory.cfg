SPECIFICATION Spec
CONSTANTS
  QueueLimit = 3
  FlushSize = 2
  FlushQueue = 1
  MaxSplitSends = 2
  Durable = FALSE
  Ticker = FALSE
  Recovered = 0
  Flushers = {f1, f2}
  Shutters = {s1}
  Cancellable = {s1}
  MaxCalls = 3
  NoFlusher = NoFlusher
SYMMETRY Symmetry
INVARIANTS
  TypeOK
  UnsentAccounted
  NoEventVanishes
  FlushNilMeansDelivered
  ShutdownNilMeansDelivered
  DeadlineReportCovers
