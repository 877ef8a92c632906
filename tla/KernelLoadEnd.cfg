CONSTANTS
  Loader = loader
  Enders = {other}
  Handles = {h1}
  Bridges = {console}
  MaxLoads = 2
  None = None
SPECIFICATION Spec
CHECK_DEADLOCK FALSE
INVARIANT RunKeepsMemory
