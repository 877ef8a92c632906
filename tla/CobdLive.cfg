SPECIFICATION FairSpec
CONSTANTS
  NUnits = 1
  Depth = 1
  Nodes = 2
  Slots = 2
  Width = 8
  StartIndex = 6
  CPUs = {c1, c2}
  WorkerCounts <- AllWorkers
  MaxIssue = 5
  None = None
CHECK_DEADLOCK FALSE
PROPERTIES
  ServiceImplemented
  
  StopReturns
  
