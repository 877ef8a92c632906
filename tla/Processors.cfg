SPECIFICATION ProcessorsSpec
CONSTANTS
  Boots = {b1}
  Pollers = {p1}
  Testers = {t1}
  Stoppers = {s1}
  NoCore = NoCore
  NoThread = NoThread
  NLanes = 1
  SlotOf <- OneSecondary
  Cores <- TwoCores
  CoreOfTest <- TestCores
  Tick = 2
  Near = 2
  Spin = 2
  Preempt = 1
  Hz = 1
  Deltas = {1, 3}
INVARIANTS
  OperationKept
  NoOversleep
PROPERTIES
  StopEndsRun
  LostProcessorEndsRun
  TimersExpire
