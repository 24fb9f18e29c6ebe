SPECIFICATION Spec
CONSTANTS
  QueueLimit = 1
  FlushSize = 1
  FlushQueue = 1
  MaxSplitSends = 1
  Durable = FALSE
  Ticker = FALSE
  Recovered = 0
  Flushers = {f1}
  Shutters = {s1}
  Cancellable = {}
  MaxCalls = 1
  NoFlusher = NoFlusher
INVARIANTS
  FlushNilMeansAccepted
