SPECIFICATION Spec
CONSTANTS
  QueueLimit = 1
  FlushSize = 1
  FlushQueue = 1
  MaxSplitSends = 1
  Durable = TRUE
  Ticker = FALSE
  Recovered = 0
  Flushers = {}
  Shutters = {s1}
  Cancellable = {}
  MaxCalls = 2
  NoFlusher = NoFlusher
INVARIANTS
  WithinBudget
