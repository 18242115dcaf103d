CONSTANTS
  Null = Null
  Workers = {w1, w2}
  Moments = {1, 2, 3}
  MaxAttempts = 2
SPECIFICATION FairSpec
INVARIANTS
  TypeOK
  OneCheckPerKey
  InactiveIsQuiet
PROPERTIES
  CompletedMeansChecked
  SecondFailureAlerts
  DueIsHandled
  ImplementsTwin
CHECK_DEADLOCK FALSE
