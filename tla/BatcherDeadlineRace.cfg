SPECIFICATION Spec
CONSTANTS
  QueueLimit = 2
  FlushSize = 1
  FlushQueue = 1
  MaxSplitSends = 1
  Durable = TRUE
  Ticker = FALSE
  Recovered = 1
  Flushers = {}
  Shutters = {s1}
  Cancellable = {s1}
  MaxCalls = 1
  NoFlusher = NoFlusher
INVARIANTS
  DeadlineReportCovers
