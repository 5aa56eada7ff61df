SPECIFICATION WarmFairSpec
CONSTANTS
  Users = {u1, u2}
  Passwords = {p1}
  PDs = {d1, d2}
  Sessions = {s1, s2}
  Rids = {r1}
  Fops = {"X"}
  RemoveOp = "X"
  BadFop = "Z"
  Digits = 1
  Base = 2
  MaxRetries = 1
  SocketFaults = FALSE
  MaxInputs = 3
  None = None
  WarmUsers = {u1}
  WarmSessions = {s1}
PROPERTIES
  EveryRequestAnswered
  EveryDatagramAnswered
CHECK_DEADLOCK FALSE
