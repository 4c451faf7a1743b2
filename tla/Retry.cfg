\* The default configuration, with a shorter timeout.
SPECIFICATION FairSpec
CONSTANTS
  FailureThreshold = 5
  RecoveryTimeout = 8
  HalfOpenMax = 3
  MaxRetries = 3
  BaseDelay = 1
  MaxDelay = 4
INVARIANTS
  TypeOK
  AttemptsBounded
PROPERTIES
  FreshGetsRetries
  ExecuteReturns
