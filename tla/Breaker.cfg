\* Three callers; threshold 2, timeout 2, one counted probe.
SPECIFICATION FairSpec
CONSTANTS
  a = a
  b = b
  c = c
  Callers <- MCCallers
  FailureThreshold = 2
  RecoveryTimeout = 2
  HalfOpenMax = 1
INVARIANTS
  TypeOK
  TripEndsInTime
  ProbesBounded
PROPERTIES
  QuietAfterTrip
  TripsOnStreak
  ClosesForGood
