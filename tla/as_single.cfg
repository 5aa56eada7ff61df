SPECIFICATION Spec
CONSTANTS
  Users = {u1}
  Passwords = {p1, p2}
  PDs = {d1, d2}
  Sessions = {s1}
  Rids = {r1, r2}
  Fops = {"L", "X"}
  RemoveOp = "X"
  BadFop = "Z"
  Digits = 2
  Base = 2
  MaxRetries = 1
  SocketFaults = TRUE
  MaxInputs = 9
  None = None
  WarmUsers = {}
  WarmSessions = {}
INVARIANTS
  TypeOK
  CodeStored
  TicketKnown
  NoZeroTid
  CountersAdvance
PROPERTIES
  ServesRegistry
  ServesTickets
CHECK_DEADLOCK FALSE
