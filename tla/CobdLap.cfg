SPECIFICATION Spec
CONSTANTS
  NUnits = 1
  Depth = 2
  Nodes = 3
  Slots = 4
  Width = 8
  StartIndex = 6
  CPUs = {c1, c2}
  WorkerCounts <- AllWorkers
  MaxIssue = 6
  None = None
CHECK_DEADLOCK FALSE
INVARIANT ProducerNeverLaps
