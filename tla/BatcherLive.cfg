SPECIFICATION LiveSpec
CONSTANTS
  QueueLimit = 2
  FlushSize = 2
  FlushQueue = 1
  MaxSplitSends = 1
  Durable = TRUE
  Ticker = TRUE
  Recovered = 0
  Flushers = {f1, f2}
  Shutters = {s1}
  Cancellable = {f1}
  MaxCalls = 1
  NoFlusher = NoFlusher
PROPERTIES
  ShutdownCompletes
  EveryFlushReturns
  NoEventStarves
