SPECIFICATION FairSpec
CONSTANTS
  NUnits = 1
  Depth = 1
  Nodes = 4
  Slots = 4
  Width = 8
  StartIndex = 0
  CPUs = {c1}
  WorkerCounts <- NoWorkers
  MaxIssue = 1
  None = None
CHECK_DEADLOCK FALSE
PROPERTY RequestsEnd
