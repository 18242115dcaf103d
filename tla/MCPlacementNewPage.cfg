CONSTANTS
  Null = Null
  Workers = {w1, w2}
  Moments = {1, 2, 3, 4}
  MaxAttempts = 2
SPECIFICATION Spec
PROPERTY NewPageIsChecked
CHECK_DEADLOCK FALSE
