CONSTANTS
  None = None
  Processes = {api, worker}
  Schedulers = {worker}
  Moments = {1, 2, 3}
SPECIFICATION FairSpec
INVARIANTS
  TypeOK
  OneEvidencePerKey
PROPERTIES
  RequestIsServed
  DueIsInspected
  ImplementsTwin
