SPECIFICATION Spec
CONSTANTS
  Users = {u1}
  Passwords = {p1}
  PDs = {d1}
  MaxRetries = 1
  MaxCommands = 1
  MaxRequests = 0
  MaxCrashes = 0
  None = None
PROPERTY
  FailureIsTruthful
CHECK_DEADLOCK FALSE
