SPECIFICATION TransportLive
CONSTANTS
  MaxRetries = 1
  MaxWait = 2
  MaxBackoff = 1
  Suggestions = {0, 1, 3}
  Far = 3
  MaxRecords = 2
INVARIANTS
  TransportTypeOK
  PauseHonoured
  RecoveryInStep
  ResultTrue
  ToldTruth
  RepeatOnlyInDoubt
PROPERTIES
  DeferralBounded
  CallsReturn
