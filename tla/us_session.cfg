SPECIFICATION WarmFairSpec
CONSTANTS
  Apps = {a1, a2}
  Users = {u1}
  Fops = {"D f", "L", "X"}
  ListOp = "L"
  RemoveOp = "X"
  LongFops = {"D f"}
  Rids = {r1}
  MaxRetries = 1
  MaxTid = 2
  MaxCommands = 3
  MaxFaults = 1
  None = None
  WarmApps = {a1}
  WarmFops = {"X"}
INVARIANTS
  TypeOK
  OnlyConfirmed
  SameAnswer
  OneSession
  SuccessIsTruthful
PROPERTIES
  PromptReturns
CHECK_DEADLOCK FALSE
