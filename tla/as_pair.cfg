SPECIFICATION WarmSpec
CONSTANTS
  Users = {u1, u2}
  Passwords = {p1}
  PDs = {d1, d2}
  Sessions = {s1, s2}
  Rids = {r1}
  Fops = {"X"}
  RemoveOp = "X"
  BadFop = "Z"
  Digits = 1
  Base = 2
  MaxRetries = 0
  SocketFaults = FALSE
  MaxInputs = 4
  None = None
  WarmUsers = {u1, u2}
  WarmSessions = {s1, s2}
SYMMETRY Symmetry
INVARIANTS
  LockInv
  MapsInStep
  RequestStillValid
  OneUserPerPD
PROPERTIES
  LockProtects
  ConfirmKeepsTicket
CHECK_DEADLOCK FALSE
