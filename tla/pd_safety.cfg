SPECIFICATION Spec
CONSTANTS
  Users = {u1, u2}
  Passwords = {p1}
  PDs = {d1, d2}
  MaxRetries = 1
  MaxCommands = 3
  MaxRequests = 1
  MaxCrashes = 1
  None = None
INVARIANTS
  TypeOK
  Agreement
  ChallengeReachesPd
PROPERTIES
  OwnRelease
  ServesRegistry
SYMMETRY Symmetry
CHECK_DEADLOCK FALSE
