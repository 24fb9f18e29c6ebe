SPECIFICATION TransportSpec
CONSTANTS
  MaxRetries = 1
  MaxWait = 2
  MaxBackoff = 1
  Suggestions = {0, 1, 3}
  Far = 3
  MaxRecords = 1
INVARIANTS
  RetryAfterHonoured
