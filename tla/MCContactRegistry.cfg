CONSTANTS
  Users = {u1, u2}
  Contacts = {1, 2, 3}
  Orgs = {1}
  Channels = {1}
  None = None
  Seeds = {2}
  MaxVersion = 3
  Editable = {1}
SPECIFICATION Spec
SYMMETRY Requests
INVARIANTS TypeOK HistoryIsFound OnePrimary NoDeadlock
PROPERTIES NoLostUpdate ImplementsTwin
CHECK_DEADLOCK FALSE
