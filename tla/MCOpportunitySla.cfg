CONSTANTS
  Users = {u1}
  Monitors = {m1, m2}
  Tasks = {1, 2, 3}
  NoTask = NoTask
  Working = {7, 8, 9, 10}
  SX = SX
  SL = SL
  NoStage = NoStage
  InitialStages = {8}
  MaxVersion = 2
SPECIFICATION FairSpec
INVARIANTS
  OneOpenIncident
PROPERTIES
  IncidentSettles
  ResolvedIsFinal
