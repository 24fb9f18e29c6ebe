SPECIFICATION ClientLive
CONSTANTS
  Callers = {c1, c2}
  Users = {u1, u2}
  Keys = {k1, k2}
  NoOne = NoOne
  MaxCalls = 3
INVARIANTS
  ClientTypeOK
  SnapshotsInOrder
  ResetSeparates
  IdentifyOwnUser
  SessionLifetime
PROPERTIES
  EveryCallReturns
CHECK_DEADLOCK FALSE
