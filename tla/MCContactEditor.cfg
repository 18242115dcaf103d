CONSTANTS
  Pages = {"contact"}
  Items = {1, 2}
  None = None
  MaxVersion = 3
  MaxFetch = 2
SPECIFICATION Spec
CHECK_DEADLOCK FALSE
INVARIANTS
  EditsAreKept
