CONSTANTS
  Users = {u1, u2}
  Monitors = {m1}
  Tasks = {1, 2, 3}
  NoTask = NoTask
  Working = {7, 8, 9, 10}
  SX = SX
  SL = SL
  NoStage = NoStage
  InitialStages = {8}
  MaxVersion = 3
SPECIFICATION Spec
PROPERTY ClosedIsFinal
