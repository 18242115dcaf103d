CONSTANTS
  Users = {u1, u2}
  Monitors = {}
  Tasks = {1, 2, 3, 4}
  NoTask = NoTask
  Working = {7, 8, 9, 10}
  SX = SX
  SL = SL
  NoStage = NoStage
  InitialStages = {8, SX}
  MaxVersion = 4
SPECIFICATION Spec
SYMMETRY Requests
INVARIANTS
  TypeOK
  NextTaskIsOpen
PROPERTIES
  ImplementsTwin
  HistoryIsAChain
  FunnelOrder
  LaunchedHealthy
  TaskIsFinal
