SPECIFICATION Spec
CONSTANTS
  NUnits = 2
  Depth = 1
  Nodes = 4
  Slots = 4
  Width = 8
  StartIndex = 6
  CPUs = {c1}
  WorkerCounts <- AnyWorkers
  MaxIssue = 5
  None = None
CHECK_DEADLOCK FALSE
INVARIANTS
  TypeOK
  PoolSuffices
  TeardownSafe
  ProducerNeverLaps
PROPERTY ServiceImplemented
