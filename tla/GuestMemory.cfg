CONSTANTS
  Loader = loader
  Enders = {}
  Handles = {h1, h2}
  Bridges = {console, net}
  MaxLoads = 2
  None = None
  TableEnd = 1
  RamEnd = 3
  Arena = 2
  Chunk = 2
  MaxBlocks = 3
  HashMult = 5
  Pool = {3, 19, 35}
  WindowFrames <- TwoBuffers
  MaxPseudoLoads = 2
  Fan = 4
  Image = 3
  Tables = 23
  Ram = 32
  P2M <- Scattered
  DirectSlot = 0
  KernelSlot = 1
  MetaVa <- Metadata
  StackVa <- BootStack
  PassageVas <- HostPages
  Secondaries = 2
  MaxSpaceLoads = 2
SPECIFICATION MemorySpec
CHECK_DEADLOCK FALSE
INVARIANTS TypesOK PagesOutliveUsers NothingStranded TranslationExact ReachableIsLocked TablesExact
PROPERTIES MemoryImplemented DeferredFreeCompletes
