SPECIFICATION FairSpec
CONSTANTS
  Users = {u1}
  Passwords = {p1, p2}
  PDs = {d1, d2}
  MaxRetries = 1
  MaxCommands = 2
  MaxRequests = 1
  MaxCrashes = 1
  None = None
INVARIANTS
  CredentialsKnown
PROPERTIES
  CommandEnds
  DatagramEnds
  RequestEnds
CHECK_DEADLOCK FALSE
