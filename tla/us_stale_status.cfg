SPECIFICATION WarmSpec
CONSTANTS
  Apps = {a1}
  Users = {u1}
  Fops = {"D f", "U f", "X"}
  ListOp = "L"
  RemoveOp = "X"
  LongFops = {}
  Rids = {r1}
  MaxRetries = 0
  MaxTid = 1
  MaxCommands = 2
  MaxFaults = 1
  None = None
  WarmApps = {a1}
  WarmFops = {"U f"}
INVARIANTS
  ReportedWasDone
CHECK_DEADLOCK FALSE
