CONSTANTS
  Users = {u1, u2}
  Contacts = {1, 2}
  Orgs = {1}
  Channels = {1}
  None = None
  Seeds = {2}
  MaxVersion = 1
  Editable = {}
SPECIFICATION Spec
SYMMETRY Requests
INVARIANT MergeTakesHistory
CHECK_DEADLOCK FALSE
